---- MODULE Spec2Model ----
(***************************************************************************)
(* Model of the orchestration core of web_search_agent:                    *)
(*   app/orchestrator.py  NormalizedRequest, DepthPolicy, RetryConfig,     *)
(*                        Orchestrator.run, _call_with_controls,           *)
(*                        _execute_with_timeout                            *)
(* One Orchestrator.run() call is followed from its first statement to     *)
(* its return or raise.  The collaborators (router, clarifier, researcher, *)
(* writer) are environment: each attempt of a stage operation returns a    *)
(* value, raises, or outlives the timeout.  This is specification Spec.    *)
(*                                                                         *)
(* Specification TaskSpec is the task service around it:                   *)
(*   app/main.py           create_research_job, _process_task,             *)
(*                         get_research_task, stream_research_task         *)
(*   app/utils/task_storage.py  TaskStorage.save_task, get_task            *)
(* There the pipeline (_run_sync_research) is environment: it returns an   *)
(* output or raises, which is all run() can do in Spec.                    *)
(***************************************************************************)
EXTENDS Integers, Sequences, FiniteSets, TLC

(***************************************************************************)
(* Bounds of the model.                                                    *)
(***************************************************************************)
\* RetryConfig.max_attempts is drawn from 1..MaxAttemptsBound.
MaxAttemptsBound == 3
\* uuid4() hands out the task ids 1..MaxTasks.
MaxTasks == 2
\* Requests posted to /v1/agent/run.
MaxRequests == 2
\* Iterations of poll_deep_research that fit into its 900 s.
MaxPolls == 1
\* Iterations of the event stream's loop.
MaxStreamPolls == 3
\* The clock of the research cache runs from 0 to MaxClock ticks.
MaxClock == 2
\* TTLCache.ttl_seconds (900 s by default), in ticks.
TtlTicks == 2
\* Raw results the search transport returns for a query.
MaxHits == 2
\* _select_citations: if len(citations) >= 5: break
MaxCitations == 5
\* RetryConfig.backoff_factor (0.5 s), in tenths of a second
backoff_factor == 5
\* The 900 s of poll_deep_research, in ticks of its poll interval.
PollCeiling == 3

(***************************************************************************)
(* Strings that the code transforms are tuples of ASCII codes, so that     *)
(* str.lower() is computed and not assumed.                                *)
(***************************************************************************)
S_quick == <<113, 117, 105, 99, 107>>
S_QUICK == <<81, 85, 73, 67, 75>>
S_deep == <<100, 101, 101, 112>>
S_Deep == <<68, 101, 69, 112>>
S_standard == <<115, 116, 97, 110, 100, 97, 114, 100>>
S_other == <<120, 108>>
S_deeper == <<100, 101, 101, 112, 101, 114>>
S_empty == <<>>

\* The depth strings a router hands to the orchestrator in this model.
DepthLabels == {S_quick, S_QUICK, S_deep, S_Deep, S_standard, S_other, S_deeper, S_empty}

\* Python's None, the value of parsed.get("depth", "standard") when the LLM's JSON
\* holds "depth": null.  It is the one-element tuple of the code -1, which no string is.
PyNone == <<0 - 1>>

\* The depth values a router hands over: LLMRouterAgent.classify puts the parsed
\* value into RouterDecision.depth as it is; classify_web_profile accepts None
\* ((depth_hint or "standard").lower()), so None comes through.
RouterDepths == DepthLabels \cup {PyNone}

\* Whether the value has a lower() method: a str has, None has not.
HasLower(depth) == depth # PyNone

\* str.lower() on ASCII text: A..Z (65..90) map to a..z, the rest is kept.
Lower(s) == [i \in 1..Len(s) |-> IF s[i] >= 65 /\ s[i] <= 90 THEN s[i] + 32 ELSE s[i]]

(***************************************************************************)
(* DepthPolicy                                                             *)
(***************************************************************************)
\* Variant of DepthPolicy: the label is kept as given (no lower()).
DepthPolicy_caseSensitive(depth) == depth

\* DepthPolicy.__init__: self.depth = depth.lower()
DepthPolicy(depth) == Lower(depth)

\* ResearchTask(task_id="persistent-task-0", pass_index=0, notes="init", status="created")
SeededTask == [task_id |-> "persistent-task-0", pass_index |-> 0, notes |-> "init", status |-> "created"]

\* DepthPolicy.build_plan, self_depth being self.depth
build_plan(self_depth) ==
    IF self_depth = S_quick
    THEN [passes |-> 1, persistent_task |-> FALSE, search_profile |-> "minimal_search", tasks |-> <<>>]
    ELSE IF self_depth = S_deep
    THEN [passes |-> 3, persistent_task |-> TRUE,
          search_profile |-> "multi_pass_search_with_synthesis", tasks |-> <<SeededTask>>]
    ELSE [passes |-> 2, persistent_task |-> FALSE, search_profile |-> "iterative_search", tasks |-> <<>>]

(***************************************************************************)
(* NormalizedRequest objects live in a heap (a sequence of objects); a     *)
(* request is referred to by its index, so that a copy and an in-place     *)
(* update are different things.                                            *)
(***************************************************************************)
\* {**self.metadata, **updates}: the keys of updates win.
MergeDict(metadata, updates) == updates @@ metadata

\* Variant of with_updates: self.metadata is updated in place and self is returned.
with_updates_inPlace(h, self, updates) ==
    LET h2 == [h EXCEPT ![self] = [query |-> h[self].query,
                                   metadata |-> MergeDict(h[self].metadata, updates)]]
    IN Append(h2, h2[self])

\* NormalizedRequest.with_updates: a new object; returns the heap after the call,
\* the new object being the last one.
with_updates(h, self, updates) ==
    Append(h, [query |-> h[self].query, metadata |-> MergeDict(h[self].metadata, updates)])

\* The metadata a caller may put on the request (app/main.py builds {"controls": ...}
\* plus extras; a stale "clarification" key shows that the update overrides).
InitialMetadata ==
    { ("controls" :> "ctl"),
      ("controls" :> "ctl") @@ ("clarification" :> "stale") }

(***************************************************************************)
(* Values the collaborators produce.                                       *)
(***************************************************************************)
\* RouterDecision(purpose, depth, needs_clarification)
RouterDecisions ==
    [purpose : {"company_research"}, depth : RouterDepths, needs_clarification : BOOLEAN]

\* What clarify() returns (a dict, kept opaque).
ClarifierOutputs == {"clarA", "clarB"}

\* Exceptions an operation raises.
OperationErrors ==
    { [type |-> "RuntimeError", msg |-> "planned failure"],
      [type |-> "ValueError", msg |-> "bad response"] }

\* concurrent.futures.TimeoutError raised by future.result(timeout=...): str() is empty.
TimeoutErr == [type |-> "TimeoutError", msg |-> ""]

\* QualityReport objects; scores in tenths (0.8 is 8).  cls is the Python class of
\* the object, the key of isinstance().
ComposerQuality ==
    [cls |-> "QualityReport", citation_coverage_score |-> 5, template_completeness_score |-> 10,
     missing_sections |-> <<"Open Questions">>, uncited_numbers |-> TRUE, contradictions |-> FALSE,
     broken_urls |-> <<>>, low_relevance_citations |-> <<>>]

\* A quality assessment that is not a QualityReport instance (a plain dict).
DictQuality ==
    [cls |-> "dict", citation_coverage_score |-> 9, template_completeness_score |-> 9,
     missing_sections |-> <<>>, uncited_numbers |-> FALSE, contradictions |-> TRUE,
     broken_urls |-> <<>>, low_relevance_citations |-> <<>>]

\* The QualityReport(...) literal of Orchestrator.run
PlaceholderQuality ==
    [cls |-> "QualityReport", citation_coverage_score |-> 8, template_completeness_score |-> 7,
     missing_sections |-> <<>>, uncited_numbers |-> FALSE, contradictions |-> FALSE,
     broken_urls |-> <<>>, low_relevance_citations |-> <<>>]

\* The "quality" entry of the writer's dict: absent (<<>>) or one object.
WriterQualities == {<<>>, <<ComposerQuality>>, <<DictQuality>>, <<PlaceholderQuality>>}

VARIABLES
    max_attempts,        \* RetryConfig.max_attempts
    clarifier_agent,     \* TRUE iff a clarifier is configured
    fact_checker_agent,  \* TRUE iff a fact checker is configured
    heap,                \* NormalizedRequest objects
    request,             \* run()'s argument (a reference into heap)
    pc,                  \* the statement run() is at
    router_decision,     \* <<>> or <<RouterDecision>>
    plan,                \* <<>> or <<ResearchPlan>>
    clarification,       \* <<>> or <<what the clarifier stage returned>>
    clarified_request,   \* reference into heap (0: not yet assigned)
    research_results,    \* the list run() accumulates
    idx,                 \* the loop variable of the research loop
    writer_payload,      \* <<>> or <<payload handed to write()>>
    run_return,          \* <<>> or <<the dict run() returns>>
    run_error,           \* <<>> or <<the OrchestrationError run() raises>>
    stage,               \* _call_with_controls: its stage argument
    stage_args,          \* _call_with_controls: *args
    attempt,             \* _call_with_controls: attempt
    last_error,          \* _call_with_controls: last_error (<<>> is None)
    exPc,                \* where _call_with_controls / _execute_with_timeout is
    stage_result,        \* <<>> or <<value returned by _call_with_controls>>
    worker,              \* the pool's worker thread: "idle" or "running"
    future,              \* the submitted call: "none", "pending", "returned", "raised"
    stageLog,            \* history: the _call_with_controls calls, with their arguments
    calls,               \* history: operation invocations within the current stage call
    sleeps,              \* history: time.sleep calls within the current stage call
    slept,               \* history: the arguments of those time.sleep calls, in tenths of a second
    errors,              \* history: the errors of the failed attempts of the current stage call
    fact_checks,         \* history: invocations of the fact checker
    sqlite_available,    \* TRUE iff _get_sqlite3() finds the sqlite3 module
    tasks,               \* _tasks, the in-memory cache: id -> <<>> or <<ResearchTaskStatus>>
    stored,              \* the tasks table of the database: id -> <<>> or <<row>>
    tpc,                 \* id -> the statement the task's _process_task is at
    payloads,            \* id -> <<>> or <<the payload _process_task was given>>
    deep_results,        \* id -> _process_task's deep_results (<<>> is None or [])
    polls,               \* id -> iterations poll_deep_research has made
    exc,                 \* id -> <<>> or <<the exception caught or escaped last>>
    output,              \* id -> <<>> or <<what _run_sync_research returned>>
    responses,           \* history: what create_research_job answered, per request
    statusLog,           \* history: id -> the statuses written to _tasks[id], in order
    writers,             \* history: id -> who wrote _tasks[id] or the row of id, in order
    runs,                \* history: id -> the _run_sync_research calls of the background work
    deepLog,             \* history: id -> how the provider's background job went
    spc,                 \* the statement the event_stream generator is at
    stream_task,         \* the task_id of the stream
    last_payload,        \* event_stream's last_payload (<<>> is None)
    events,              \* history: the events the stream has yielded
    stream_polls,        \* iterations of the stream's loop
    rank_pc,             \* the statement a ranking call is at
    results_in,          \* the SearchResult list handed to the ranking call
    disallowed,          \* rank_search_results: disallowed_types
    filtered,            \* <<>> or <<what _filter_by_preference returned>>
    ranked,              \* <<>> or <<what the ranking call returned>>
    clock,               \* datetime.now(timezone.utc), in ticks
    cache_store,         \* TTLCache._store: query -> <<>> or <<CacheEntry>>
    cache_last,           \* history: <<>> or <<the last get or set call on the cache>>
    transport_hits,      \* the raw results the search transport returns
    strategy,            \* passes of the plan, search queries per pass, Strategy.max_searches
    research_pc,         \* the statement the run is at in research and composition
    query_idx,           \* ResearcherAdapter.research: the search query the loop is at
    aggregated_results,  \* ResearcherAdapter.research: aggregated_results
    pass_results,        \* the research_results the orchestrator collects, one dict per pass
    search_log,          \* history: the WebSearchTool.search calls and how the transport went
    metadata_deep_results, \* request.metadata.get("deep_results"): a list (<<>>: none or empty)
    deep_client_calls,   \* history: the DeepResearchClient.run_sync calls and what they returned
    written,             \* <<>> or <<what TemplateWriter.write assembled>>
    poll_pc,             \* the statement poll_deep_research is at
    elapsed,             \* time.time() - start_time, in ticks of the poll interval (2 s)
    task_notes,          \* _tasks[task_id].notes, a list (None is the empty list)
    poll_exc,            \* <<>> or <<the exception poll_deep_research raised>>
    retrievals,          \* history: what the status retrievals of the job observed, in order
    extracted            \* history: <<>> or <<the notes the last poll extracted>>

configVars == <<max_attempts, clarifier_agent, fact_checker_agent, request>>
runVars == <<heap, pc, router_decision, plan, clarification, clarified_request, research_results, idx,
             writer_payload, run_return, run_error>>
execVars == <<stage, stage_args, attempt, last_error, exPc, stage_result, worker, future>>
histVars == <<stageLog, calls, sleeps, slept, errors, fact_checks>>
taskVars == <<sqlite_available, tasks, stored, tpc, payloads, deep_results, polls, exc, output,
              responses, statusLog, writers, runs, deepLog>>
streamVars == <<spc, stream_task, last_payload, events, stream_polls>>
serverVars == <<taskVars, streamVars>>
rankVars == <<rank_pc, results_in, disallowed, filtered, ranked>>
cacheVars == <<clock, cache_store, cache_last>>
researchVars == <<transport_hits, strategy, research_pc, query_idx, aggregated_results, pass_results,
                  search_log, metadata_deep_results, deep_client_calls, written>>
pollVars == <<poll_pc, elapsed, task_notes, poll_exc, retrievals, extracted>>
libVars == <<rankVars, cacheVars, researchVars, pollVars>>
vars == <<configVars, runVars, execVars, histVars, serverVars, libVars>>

\* No argument (pass_index of a stage that is not a research pass).
NoPass == 0 - 1

RunInit ==
    /\ max_attempts \in 1..MaxAttemptsBound
    /\ clarifier_agent \in BOOLEAN
    /\ fact_checker_agent \in BOOLEAN
    /\ \E m \in InitialMetadata : heap = <<[query |-> "Research ACME", metadata |-> m]>>
    /\ request = 1
    /\ pc = "start"
    /\ router_decision = <<>>
    /\ plan = <<>>
    /\ clarification = <<>>
    /\ clarified_request = 0
    /\ research_results = <<>>
    /\ idx = 0
    /\ writer_payload = <<>>
    /\ run_return = <<>>
    /\ run_error = <<>>
    /\ stage = "none"
    /\ stage_args = [request |-> 0, pass_index |-> NoPass, task |-> <<>>]
    /\ attempt = 0
    /\ last_error = <<>>
    /\ exPc = "idle"
    /\ stage_result = <<>>
    /\ worker = "idle"
    /\ future = "none"
    /\ stageLog = <<>>
    /\ calls = 0
    /\ sleeps = 0
    /\ slept = <<>>
    /\ errors = <<>>
    /\ fact_checks = 0

\* The ids of tasks submitted to this process.
TaskIds == 1..MaxTasks

\* Ids of tasks an earlier process left in the database.
OldIds == {0}

AllIds == TaskIds \cup OldIds

\* The server's state at import: _tasks = {}, no background work, no stream; the
\* database as the earlier process left it (oldRows).
ServerInit(sqlite, oldRows) ==
    /\ sqlite_available = sqlite
    /\ tasks = [t \in AllIds |-> <<>>]
    /\ stored = [t \in AllIds |-> IF t \in OldIds THEN oldRows ELSE <<>>]
    /\ tpc = [t \in TaskIds |-> "none"]
    /\ payloads = [t \in TaskIds |-> <<>>]
    /\ deep_results = [t \in TaskIds |-> <<>>]
    /\ polls = [t \in TaskIds |-> 0]
    /\ exc = [t \in TaskIds |-> <<>>]
    /\ output = [t \in TaskIds |-> <<>>]
    /\ responses = <<>>
    /\ statusLog = [t \in AllIds |-> <<>>]
    /\ writers = [t \in AllIds |-> <<>>]
    /\ runs = [t \in TaskIds |-> <<>>]
    /\ deepLog = [t \in TaskIds |-> "none"]
    /\ spc = "closed"
    /\ stream_task = 0
    /\ last_payload = <<>>
    /\ events = <<>>
    /\ stream_polls = 0

\* The user's query (an opaque text).
UserQuery == "q"

\* ResearcherAdapter._build_search_queries: the variations of the query for a
\* standard run ([query, latest news]) and a deep one ([query, recent
\* developments, risks and outlook]); a quick run has [query].
QueryVariations(depth) ==
    IF depth = "quick" THEN <<UserQuery>>
    ELSE IF depth = "standard" THEN <<UserQuery, "latest news q">>
    ELSE <<UserQuery, "recent developments q", "risks and outlook q">>

\* The keys the research cache is asked for.
CacheKeys == {UserQuery, "latest news q", "recent developments q", "risks and outlook q"}

\* No ranking call is under way.
RankIdle ==
    /\ rank_pc = "idle"
    /\ results_in = <<>>
    /\ disallowed = {}
    /\ filtered = <<>>
    /\ ranked = <<>>

\* A fresh TTLCache (_store = {}) at time 0.
CacheIdle ==
    /\ clock = 0
    /\ cache_store = [k \in CacheKeys |-> <<>>]
    /\ cache_last = <<>>

\* Nothing searched, nothing written.
ResearchIdle ==
    /\ transport_hits = <<>>
    /\ strategy = [depth |-> "quick", passes |-> 0, max_searches |-> 0, model |-> "gpt-5.1"]
    /\ metadata_deep_results = <<>>
    /\ deep_client_calls = <<>>
    /\ research_pc = "idle"
    /\ query_idx = 0
    /\ aggregated_results = [preferred |-> <<>>, all |-> <<>>]
    /\ pass_results = <<>>
    /\ search_log = <<>>
    /\ written = <<>>

\* No provider job is polled.
PollIdle ==
    /\ poll_pc = "idle"
    /\ elapsed = 0
    /\ task_notes = <<>>
    /\ poll_exc = <<>>
    /\ retrievals = <<>>
    /\ extracted = <<>>

\* The ranking functions, the research cache, the researcher and the poller at rest.
LibIdle ==
    /\ RankIdle
    /\ CacheIdle
    /\ ResearchIdle
    /\ PollIdle

\* One run() call on its own: the server takes no step.
Init ==
    /\ RunInit
    /\ ServerInit(TRUE, <<>>)
    /\ LibIdle

(***************************************************************************)
(* Stage Executor: Orchestrator._call_with_controls and                    *)
(* _execute_with_timeout.                                                  *)
(***************************************************************************)
\* The arguments of a stage operation, as the history records them.
StageArgs(req, pass_index, task) == [request |-> req, pass_index |-> pass_index, task |-> task]

\* Entry of _call_with_controls(stage, func, *args): attempt = 0, last_error = None.
\* Part of the run() step that makes the call.
BeginStage(s, args) ==
    /\ stage' = s
    /\ stage_args' = args
    /\ attempt' = 0
    /\ last_error' = <<>>
    /\ stage_result' = <<>>
    /\ exPc' = "loop"
    /\ future' = "none"
    /\ stageLog' = Append(stageLog, [stage |-> s, args |-> args])
    /\ calls' = 0
    /\ sleeps' = 0
    /\ slept' = <<>>
    /\ errors' = <<>>
    /\ UNCHANGED worker

\* while attempt < self.retry_config.max_attempts
LoopContinues(n, maxn) == n < maxn

\* Variant of SleepsAfterFailure: the backoff before the last attempt is skipped.
SleepsAfterFailure_skipLast(n, maxn) == n < maxn - 1

\* if attempt < self.retry_config.max_attempts: time.sleep(...)
SleepsAfterFailure(n, maxn) == n < maxn

\* Variant of Backoff: the exponent is attempt, not attempt - 1.
Backoff_fromAttempt(n) == backoff_factor * 2^n

\* self.retry_config.backoff_factor * (2 ** (attempt - 1)), in tenths of a second
Backoff(n) == backoff_factor * 2^(n - 1)

\* What the operation of a stage may return, given the arguments of the call.
\* The researcher's result identifies the call that produced it.
OperationValues(s, args) ==
    CASE s = "router" -> RouterDecisions
      [] s = "clarifier" -> ClarifierOutputs
      [] s = "researcher" -> {[pass_index |-> args.pass_index, request |-> args.request, task |-> args.task]}
      [] s = "writer" -> {[envelope |-> "document", quality |-> q] : q \in WriterQualities}

\* attempt += 1; executor.submit(func, *args): the worker starts the operation and
\* the caller waits in future.result(timeout=timeout_seconds).
SubmitAttempt ==
    /\ exPc = "loop"
    /\ LoopContinues(attempt, max_attempts)
    /\ attempt' = attempt + 1
    /\ worker' = "running"
    /\ future' = "pending"
    /\ exPc' = "result_wait"
    /\ calls' = calls + 1
    /\ UNCHANGED <<serverVars, configVars, libVars, runVars, stage, stage_args, last_error, stage_result,
                   stageLog, sleeps, slept, errors, fact_checks>>

\* The operation returns within the timeout: future.result() returns, the pool is
\* shut down (its worker is done) and _call_with_controls returns the result.
OperationReturns ==
    /\ exPc = "result_wait"
    /\ worker = "running"
    /\ \E v \in OperationValues(stage, stage_args) : stage_result' = <<v>>
    /\ worker' = "idle"
    /\ future' = "returned"
    /\ exPc' = "done"
    /\ UNCHANGED <<serverVars, configVars, libVars, runVars, stage, stage_args, attempt, last_error,
                   stageLog, calls, sleeps, slept, errors, fact_checks>>

\* Variant of AfterFailure: only the first error is remembered.
AfterFailure_keepFirst(err) ==
    /\ last_error' = IF last_error = <<>> THEN <<err>> ELSE last_error
    /\ errors' = Append(errors, err)
    /\ IF SleepsAfterFailure(attempt, max_attempts)
       THEN exPc' = "sleep" /\ sleeps' = sleeps + 1 /\ slept' = Append(slept, Backoff(attempt))
       ELSE exPc' = "loop" /\ sleeps' = sleeps /\ slept' = slept

\* After `last_error = exc`: the backoff sleep, or straight back to the loop test.
AfterFailure(err) ==
    /\ last_error' = <<err>>
    /\ errors' = Append(errors, err)
    /\ IF SleepsAfterFailure(attempt, max_attempts)
       THEN exPc' = "sleep" /\ sleeps' = sleeps + 1 /\ slept' = Append(slept, Backoff(attempt))
       ELSE exPc' = "loop" /\ sleeps' = sleeps /\ slept' = slept

\* The operation raises within the timeout: except Exception as exc.
OperationRaises ==
    /\ exPc = "result_wait"
    /\ worker = "running"
    /\ \E e \in OperationErrors : AfterFailure(e)
    /\ worker' = "idle"
    /\ future' = "raised"
    /\ UNCHANGED <<serverVars, configVars, libVars, runVars, stage, stage_args, attempt, stage_result,
                   stageLog, calls, fact_checks>>

\* Variant of TimeoutFires: the pool is not waited for (shutdown(wait=False)); the
\* TimeoutError reaches the except clause while the operation is still running.
TimeoutFires_noJoin ==
    /\ exPc = "result_wait"
    /\ worker = "running"
    /\ AfterFailure(TimeoutErr)
    /\ UNCHANGED <<serverVars, configVars, libVars, runVars, stage, stage_args, attempt, stage_result,
                   worker, future, stageLog, calls, fact_checks>>

\* timeout_seconds elapse with the operation still running: future.result raises
\* TimeoutError inside the with block, whose __exit__ is executor.shutdown(wait=True):
\* the caller now waits for the worker thread to end.
TimeoutFires ==
    /\ exPc = "result_wait"
    /\ worker = "running"
    /\ exPc' = "shutdown_wait"
    /\ UNCHANGED <<serverVars, configVars, libVars, runVars, stage, stage_args, attempt, last_error, stage_result,
                   worker, future, stageLog, calls, sleeps, slept, errors, fact_checks>>

\* The operation that outlived the timeout ends (its value or exception is dropped):
\* shutdown returns, the TimeoutError reaches `except TimeoutError as exc`.
AbandonedOperationEnds ==
    /\ exPc = "shutdown_wait"
    /\ worker = "running"
    /\ worker' = "idle"
    /\ future' \in {"returned", "raised"}
    /\ AfterFailure(TimeoutErr)
    /\ UNCHANGED <<serverVars, configVars, libVars, runVars, stage, stage_args, attempt, stage_result,
                   stageLog, calls, fact_checks>>

\* time.sleep(backoff_factor * 2 ** (attempt - 1)) returns.
BackoffDone ==
    /\ exPc = "sleep"
    /\ exPc' = "loop"
    /\ UNCHANGED <<serverVars, configVars, libVars, runVars, stage, stage_args, attempt, last_error, stage_result,
                   worker, future, histVars>>

\* f"{stage} agent failed after {max_attempts} attempts: {error_type}: {error_msg}"
ErrorMessage(s, maxn, err) ==
    [stage |-> s,
     attempts |-> maxn,
     error_type |-> IF err = <<>> THEN "UnknownError" ELSE err[1].type,
     error_msg |-> IF err = <<>> THEN "Unknown error" ELSE err[1].msg]

\* Variant of StageExhausted: the exhausted stage is swallowed and run() returns what
\* it has accumulated.
StageExhausted_partialResult ==
    /\ exPc = "loop"
    /\ ~LoopContinues(attempt, max_attempts)
    /\ run_return' = <<[research_results |-> research_results]>>
    /\ pc' = "returned"
    /\ exPc' = "idle"
    /\ UNCHANGED <<serverVars, configVars, libVars, heap, router_decision, plan, clarification, clarified_request,
                   research_results, idx, writer_payload, run_error, stage, stage_args, attempt,
                   last_error, stage_result, worker, future, histVars>>

\* The loop ends without a result: raise OrchestrationError(...), which run() does
\* not catch.
StageExhausted ==
    /\ exPc = "loop"
    /\ ~LoopContinues(attempt, max_attempts)
    /\ run_error' = <<ErrorMessage(stage, max_attempts, last_error)>>
    /\ pc' = "raised"
    /\ exPc' = "idle"
    /\ UNCHANGED <<serverVars, configVars, libVars, heap, router_decision, plan, clarification, clarified_request,
                   research_results, idx, writer_payload, run_return, stage, stage_args, attempt, last_error,
                   stage_result, worker, future, histVars>>

(***************************************************************************)
(* Orchestrator.run                                                        *)
(***************************************************************************)
\* router_decision = self._call_with_controls("router", self.router_agent.classify, request)
RunStart ==
    /\ pc = "start"
    /\ pc' = "router"
    /\ BeginStage("router", StageArgs(request, NoPass, <<>>))
    /\ UNCHANGED <<serverVars, configVars, libVars, heap, router_decision, plan, clarification, clarified_request,
                   research_results, idx, writer_payload, run_return, run_error, fact_checks>>

\* Variant of NeedsClarifierStage: the clarifier's presence is not tested.
NeedsClarifierStage_ignoreConfig(decision, clarifier) == decision.needs_clarification

\* if router_decision.needs_clarification and self.clarifier_agent
NeedsClarifierStage(decision, clarifier) == decision.needs_clarification /\ clarifier

\* Variant of PersistedTask: no task is handed to the passes.
PersistedTask_none(p) == <<>>

\* persisted_task = plan.tasks[0] if plan.tasks else None
PersistedTask(p) == IF p.tasks # <<>> THEN <<p.tasks[1]>> ELSE <<>>

\* Variant of HasPass: one pass too many (range(plan.passes + 1)).
HasPass_offByOne(p, i) == i <= p.passes

\* for idx in range(plan.passes): is there a pass with index i
HasPass(p, i) == i < p.passes

\* writer_payload = {"router": ..., "plan": ..., "research": ..., "request": ...}
WriterPayload(decision, p, results, req) ==
    [router |-> decision, plan |-> p, research |-> results, request |-> req]

\* The research loop from pass i on, and the writer call after it; decision, p, req
\* and results are router_decision, plan, clarified_request and research_results at
\* that point.
ContinueFromPass(decision, p, req, results, i) ==
    IF HasPass(p, i)
    THEN /\ pc' = "researcher"
         /\ idx' = i
         /\ BeginStage("researcher", StageArgs(req, i, PersistedTask(p)))
         /\ UNCHANGED writer_payload
    ELSE /\ pc' = "writer"
         /\ idx' = idx
         /\ writer_payload' = <<WriterPayload(decision, p, results, req)>>
         /\ BeginStage("writer", StageArgs(req, NoPass, <<>>))

\* The router stage returned: plan = DepthPolicy(router_decision.depth).build_plan();
\* clarified_request = request; then the clarifier call, or the research loop.
AfterRouter ==
    /\ pc = "router"
    /\ exPc = "done"
    /\ HasLower(stage_result[1].depth)
    /\ router_decision' = stage_result
    /\ plan' = <<build_plan(DepthPolicy(stage_result[1].depth))>>
    /\ IF NeedsClarifierStage(stage_result[1], clarifier_agent)
       THEN /\ pc' = "clarifier"
            /\ clarified_request' = request
            /\ BeginStage("clarifier", StageArgs(request, NoPass, <<>>))
            /\ UNCHANGED <<research_results, idx, writer_payload>>
       ELSE /\ clarified_request' = request
            /\ research_results' = <<>>
            /\ ContinueFromPass(stage_result[1], plan'[1], request, <<>>, 0)
    /\ UNCHANGED <<serverVars, configVars, libVars, heap, clarification, run_return, run_error, fact_checks>>

\* The AttributeError of depth.lower() on a value that is not a str.
PlanError == [stage |-> "plan", attempts |-> 0, error_type |-> "AttributeError",
              error_msg |-> "'NoneType' object has no attribute 'lower'"]

\* The router stage returned a depth without lower(): DepthPolicy(router_decision.depth)
\* raises AttributeError, which run() does not catch; the frame of run() is gone, no
\* plan was built and no further stage is called.
PlanRaises ==
    /\ pc = "router"
    /\ exPc = "done"
    /\ ~HasLower(stage_result[1].depth)
    /\ pc' = "plan_error"
    /\ run_error' = <<PlanError>>
    /\ exPc' = "idle"
    /\ UNCHANGED <<serverVars, configVars, libVars, heap, router_decision, plan, clarification, clarified_request,
                   research_results, idx, writer_payload, run_return, stage, stage_args, attempt,
                   last_error, stage_result, worker, future, histVars>>

\* The clarifier stage returned:
\* clarified_request = request.with_updates(clarification=clarification); research loop.
AfterClarifier ==
    /\ pc = "clarifier"
    /\ exPc = "done"
    /\ clarification' = stage_result
    /\ heap' = with_updates(heap, request, "clarification" :> stage_result[1])
    /\ clarified_request' = Len(heap')
    /\ research_results' = <<>>
    /\ ContinueFromPass(router_decision[1], plan[1], clarified_request', <<>>, 0)
    /\ UNCHANGED <<serverVars, configVars, libVars, router_decision, plan, run_return, run_error, fact_checks>>

\* A research pass returned: research_results.append(...); next pass or the writer.
AfterResearcher ==
    /\ pc = "researcher"
    /\ exPc = "done"
    /\ research_results' = Append(research_results, stage_result[1])
    /\ ContinueFromPass(router_decision[1], plan[1], clarified_request, research_results', idx + 1)
    /\ UNCHANGED <<serverVars, configVars, libVars, heap, router_decision, plan, clarification, clarified_request,
                   run_return, run_error, fact_checks>>

\* Variant of ResolveQuality: the writer's assessment is always overwritten.
ResolveQuality_alwaysPlaceholder(written_output) ==
    [written_output EXCEPT !.quality = <<PlaceholderQuality>>]

\* quality = written_output.get("quality"); kept if isinstance(quality, QualityReport),
\* else replaced by the QualityReport literal.  The result is the writer's dict with
\* its "quality" entry set.
ResolveQuality(written_output) ==
    IF written_output.quality # <<>> /\ written_output.quality[1].cls = "QualityReport"
    THEN [written_output EXCEPT !.quality = <<written_output.quality[1]>>]
    ELSE [written_output EXCEPT !.quality = <<PlaceholderQuality>>]

\* Variant of InvokesFactChecker: a configured fact checker is called.
InvokesFactChecker_ifConfigured(configured) == configured

\* Whether run() calls self.fact_checker_agent: the call is disabled in the source.
InvokesFactChecker(configured) == FALSE

\* The writer stage returned: the quality entry is resolved and run() returns.
AfterWriter ==
    /\ pc = "writer"
    /\ exPc = "done"
    /\ fact_checks' = IF InvokesFactChecker(fact_checker_agent) THEN fact_checks + 1 ELSE fact_checks
    /\ run_return' = <<[decision |-> router_decision[1],
                        plan |-> plan[1],
                        research_results |-> research_results,
                        output |-> ResolveQuality(stage_result[1])]>>
    /\ pc' = "returned"
    /\ exPc' = "idle"
    /\ UNCHANGED <<serverVars, configVars, libVars, heap, router_decision, plan, clarification, clarified_request,
                   research_results, idx, writer_payload, run_error, stage, stage_args, attempt, last_error,
                   stage_result, worker, future, stageLog, calls, sleeps,
                   slept, errors>>

Next ==
    \/ RunStart
    \/ SubmitAttempt
    \/ OperationReturns
    \/ OperationRaises
    \/ TimeoutFires
    \/ AbandonedOperationEnds
    \/ BackoffDone
    \/ StageExhausted
    \/ AfterRouter
    \/ PlanRaises
    \/ AfterClarifier
    \/ AfterResearcher
    \/ AfterWriter

Spec == Init /\ [][Next]_vars

(***************************************************************************)
(* The task service: app/main.py and app/utils/task_storage.py.            *)
(* The handlers and the background work are coroutines of one event loop:  *)
(* a coroutine keeps the loop from one await to the next.  The thread that *)
(* polls the provider (run_in_executor) runs beside the loop.              *)
(***************************************************************************)
\* ResearchControls as far as the handlers read them: async_mode and depth (Depth).
Payloads == [async_mode : BOOLEAN, depth : {"quick", "deep"}]

\* ResponseEnvelope after _run_sync_research has set envelope.metadata =
\* ResponseMetadata(..., task_id=task_id, status=COMPLETED); created_at is filled by
\* default_factory=datetime.utcnow.
Envelope(task_id) ==
    [title |-> "Report",
     metadata |-> [task_id |-> task_id, status |-> "completed", created_at |-> [cls |-> "datetime"]]]

\* What _run_sync_research returns besides the envelope: the writer's notes,
\* findings and evidence (None and the empty list are both the empty value here).
PipelineOutputs ==
    { [notes |-> {}, findings |-> <<>>, evidence |-> <<>>],
      [notes |-> {"w1"}, findings |-> <<"F1">>, evidence |-> <<"E1">>] }

\* Exceptions _orchestrator.run raises: the OrchestrationError of an exhausted
\* stage, and the AttributeError of DepthPolicy on a depth that is no str.
PipelineErrors ==
    { [type |-> "OrchestrationError",
       msg |-> "router agent failed after 3 attempts: RuntimeError: planned failure"],
      [type |-> PlanError.error_type, msg |-> PlanError.error_msg] }

\* Variant of Str: the text carries the exception's type in front.
Str_withType(e) == <<e.type, e.msg>>

\* str(exc): the exception's message (a text is the sequence of its pieces).
Str(e) == <<e.msg>>

\* ResearchTaskStatus(task_id=..., status=..., envelope=..., notes=..., findings=...,
\* evidence=..., error=...); the fields left out are None.
TaskStatus(task_id, status, envelope, out, error) ==
    [task_id |-> task_id, status |-> status, envelope |-> envelope, notes |-> out.notes,
     findings |-> out.findings, evidence |-> out.evidence, error |-> error]

\* The fields of a ResearchTaskStatus built without artifacts.
NoArtifacts == [notes |-> {}, findings |-> <<>>, evidence |-> <<>>]

\* TaskStatus.COMPLETED and TaskStatus.FAILED
TerminalStatuses == {"completed", "failed"}

\* json.dumps raises TypeError on a datetime: envelope.dict() keeps
\* metadata.created_at as a datetime object.
JsonDumpsRaises(task) ==
    /\ task.envelope # <<>>
    /\ task.envelope[1].metadata.created_at.cls = "datetime"

JsonError == [type |-> "TypeError", msg |-> "Object of type datetime is not JSON serializable"]

\* An sqlite3 failure of connect/execute/commit.
DbError == [type |-> "OperationalError", msg |-> "database is locked"]

\* What save_task(task) can do: return without writing when sqlite3 is missing;
\* else serialize and write the row; an exception of the serialization or of the
\* database is logged and raised again.
SaveOutcomes(available, task) ==
    IF ~available
    THEN {[kind |-> "skipped", exc |-> <<>>]}
    ELSE IF JsonDumpsRaises(task)
    THEN {[kind |-> "raised", exc |-> <<JsonError>>]}
    ELSE {[kind |-> "written", exc |-> <<>>], [kind |-> "raised", exc |-> <<DbError>>]}

\* The row INSERT OR REPLACE writes for a task (a row is written only for a task
\* whose envelope is None, see JsonDumpsRaises).
Row(task) ==
    [task_id |-> task.task_id, status |-> task.status, envelope |-> <<>>, notes |-> task.notes,
     findings |-> task.findings, evidence |-> task.evidence, error |-> task.error]

\* get_task: the ResearchTaskStatus built from a row.
FromRow(row) ==
    [task_id |-> row.task_id, status |-> row.status, envelope |-> row.envelope, notes |-> row.notes,
     findings |-> row.findings, evidence |-> row.evidence, error |-> row.error]

\* The database after save_task(task) with outcome o.
StoredAfter(o, task) ==
    IF o.kind = "written" THEN [stored EXCEPT ![task.task_id] = <<Row(task)>>] ELSE stored

\* A row an earlier process may have left: a task that failed there.
OldRow == Row(TaskStatus(0, "failed", <<>>, NoArtifacts, <<Str(DbError)>>))

\* The points where _process_task does not hold the event loop: not started, waiting
\* to be started, awaiting run_in_executor, returned, or ended by an exception.
AwaitPoints == {"none", "scheduled", "polling", "poll_returned", "poll_raised", "done", "crashed"}

\* No coroutine is between two awaits: the loop can run another coroutine.
LoopFree == \A t \in TaskIds : tpc[t] \in AwaitPoints

\* Variant of AsyncRequested: only the flag counts.
AsyncRequested_flagOnly(p) == p.async_mode

\* async_requested = payload.controls.async_mode or payload.controls.depth == Depth.DEEP
AsyncRequested(p) == p.async_mode \/ p.depth = "deep"

\* The ids no task has, in the cache or in the database.
UnusedIds == {t \in TaskIds : tasks[t] = <<>> /\ stored[t] = <<>> /\ tpc[t] = "none"}

\* str(uuid4()): an unused id; the unused ids being interchangeable, the least one.
FreshIds == {t \in UnusedIds : \A u \in UnusedIds : t <= u}

\* What the synchronous branch of create_research_job answers: the ResearchResponse,
\* or HTTP 500 when the pipeline raised.
SyncAnswers == {"research_response", "http_500"}

\* POST /v1/agent/run
create_research_job ==
    /\ LoopFree
    /\ Len(responses) < MaxRequests
    /\ \E p \in Payloads :
           IF AsyncRequested(p)
           THEN \E t \in FreshIds :
                    /\ tasks' = [tasks EXCEPT ![t] = <<TaskStatus(t, "queued", <<>>, NoArtifacts, <<>>)>>]
                    /\ statusLog' = [statusLog EXCEPT ![t] = Append(@, "queued")]
                    /\ writers' = [writers EXCEPT ![t] = Append(@, [by |-> "handler", to |-> "cache"])]
                    /\ tpc' = [tpc EXCEPT ![t] = "scheduled"]
                    /\ payloads' = [payloads EXCEPT ![t] = <<p>>]
                    /\ responses' = Append(responses,
                                           [payload |-> p, kind |-> "task_created", task_id |-> <<t>>,
                                            status |-> <<"queued">>])
           ELSE \E a \in SyncAnswers :
                    /\ responses' = Append(responses,
                                           [payload |-> p, kind |-> a, task_id |-> <<>>, status |-> <<>>])
                    /\ UNCHANGED <<tasks, statusLog, writers, tpc, payloads>>
    /\ UNCHANGED <<sqlite_available, deepLog, stored, deep_results, polls, exc, output, runs, streamVars,
                   configVars, libVars, runVars, execVars, histVars>>

\* _process_task up to its first cache write: log, metric,
\* _tasks[task_id] = ResearchTaskStatus(status=RUNNING).
TaskStart(t) ==
    /\ LoopFree
    /\ tpc[t] = "scheduled"
    /\ tasks' = [tasks EXCEPT ![t] = <<TaskStatus(t, "running", <<>>, NoArtifacts, <<>>)>>]
    /\ statusLog' = [statusLog EXCEPT ![t] = Append(@, "running")]
    /\ writers' = [writers EXCEPT ![t] = Append(@, [by |-> "work", to |-> "cache"])]
    /\ tpc' = [tpc EXCEPT ![t] = "save_running"]
    /\ UNCHANGED <<sqlite_available, deepLog, stored, payloads, deep_results, polls, exc, output, responses, runs,
                   streamVars, configVars, libVars, runVars, execVars, histVars>>

\* _task_storage.save_task(task_status) before the try: an exception leaves
\* _process_task; else the deep branch or the pipeline is next.
SaveRunning(t) ==
    /\ tpc[t] = "save_running"
    /\ \E o \in SaveOutcomes(sqlite_available, tasks[t][1]) :
           /\ stored' = StoredAfter(o, tasks[t][1])
           /\ writers' = IF o.kind = "written"
                          THEN [writers EXCEPT ![t] = Append(@, [by |-> "work", to |-> "store"])]
                          ELSE writers
           /\ IF o.kind = "raised"
              THEN /\ tpc' = [tpc EXCEPT ![t] = "crashed"]
                   /\ exc' = [exc EXCEPT ![t] = o.exc]
              ELSE /\ tpc' = [tpc EXCEPT ![t] = IF payloads[t][1].depth = "deep"
                                                 THEN "deep_start" ELSE "sync"]
                   /\ exc' = exc
    /\ UNCHANGED <<sqlite_available, deepLog, tasks, payloads, deep_results, polls, output, responses, statusLog,
                   runs, streamVars, configVars, libVars, runVars, execVars, histVars>>

\* response_id = _deep_client.run_background(payload.query): it returns and the
\* coroutine awaits the polling thread, or it raises and the except of the deep
\* branch leaves deep_results None.
DeepStart(t) ==
    /\ tpc[t] = "deep_start"
    /\ \E started \in BOOLEAN :
           /\ tpc' = [tpc EXCEPT ![t] = IF started THEN "polling" ELSE "sync"]
           /\ deepLog' = [deepLog EXCEPT ![t] = IF started THEN "started" ELSE "start_failed"]
    /\ UNCHANGED <<sqlite_available, tasks, stored, payloads, deep_results, polls, exc, output, responses,
                   statusLog, writers, runs, streamVars, configVars, libVars, runVars, execVars, histVars>>

\* The intermediate notes one poll can bring.
PolledNotes == {{}, {"n1"}}

\* _tasks[task_id].notes = list(set(current_notes + new_notes)), when there are new
\* notes: the cached object is changed in place.
MergeNotes(task, notes) == [task EXCEPT !.notes = @ \cup notes]

\* One iteration of poll_deep_research (in the executor's thread): notes are merged;
\* the provider's status is completed and the response is returned, or the
\* iteration ends in time.sleep(2) (also when the provider reports a failure or
\* retrieve raises: the inner except takes the RuntimeError).
Poll(t) ==
    /\ tpc[t] = "polling"
    /\ \E n \in PolledNotes, completed \in BOOLEAN :
           /\ tasks' = [tasks EXCEPT ![t] = <<MergeNotes(tasks[t][1], n)>>]
           /\ writers' = IF n \subseteq tasks[t][1].notes
                          THEN writers
                          ELSE [writers EXCEPT ![t] = Append(@, [by |-> "poller", to |-> "cache"])]
           /\ IF completed
              THEN /\ tpc' = [tpc EXCEPT ![t] = "poll_returned"]
                   /\ polls' = polls
              ELSE /\ polls[t] < MaxPolls
                   /\ polls' = [polls EXCEPT ![t] = @ + 1]
                   /\ tpc' = tpc
    /\ UNCHANGED <<sqlite_available, deepLog, stored, payloads, deep_results, exc, output, responses, statusLog,
                   runs, streamVars, configVars, libVars, runVars, execVars, histVars>>

\* The 900 s are over: poll_deep_research raises TimeoutError.
PollTimesOut(t) ==
    /\ tpc[t] = "polling"
    /\ polls[t] >= 1
    /\ tpc' = [tpc EXCEPT ![t] = "poll_raised"]
    /\ deepLog' = [deepLog EXCEPT ![t] = "timed_out"]
    /\ UNCHANGED <<sqlite_available, tasks, stored, payloads, deep_results, polls, exc, output, responses,
                   statusLog, writers, runs, streamVars, configVars, libVars, runVars, execVars, histVars>>

\* What _extract_citations_from_response gives: citations or an empty list.
ExtractedResults == {<<>>, <<"citation">>}

\* The await of run_in_executor ends: deep_results = _extract_citations_from_response(
\* response), or the except of the polling (warning, metric) with deep_results None.
PollDone(t) ==
    /\ LoopFree
    /\ tpc[t] \in {"poll_returned", "poll_raised"}
    /\ IF tpc[t] = "poll_returned"
       THEN /\ \E r \in ExtractedResults : deep_results' = [deep_results EXCEPT ![t] = r]
            /\ deepLog' = [deepLog EXCEPT ![t] = "returned"]
       ELSE /\ deep_results' = deep_results
            /\ deepLog' = deepLog
    /\ tpc' = [tpc EXCEPT ![t] = "sync"]
    /\ UNCHANGED <<sqlite_available, tasks, stored, payloads, polls, exc, output, responses, statusLog, writers,
                   runs, streamVars, configVars, libVars, runVars, execVars, histVars>>

\* metadata_extra = {}; if deep_results: metadata_extra["deep_results"] = deep_results
\* (a dict is the set of its items).
MetadataExtra(results) == IF results # <<>> THEN {<<"deep_results", results>>} ELSE {}

\* _run_sync_research: metadata = {"controls": payload.controls} updated with
\* metadata_extra.
PipelineMetadata(p, extra) == {<<"controls", p>>} \cup extra

\* _run_sync_research(payload, task_id, metadata_extra) in the background work: it
\* returns and _tasks[task_id] becomes the WRITING status with the artifacts, or it
\* raises and the except of _process_task is next.
RunSync(t) ==
    /\ tpc[t] = "sync"
    /\ LET md == PipelineMetadata(payloads[t][1], MetadataExtra(deep_results[t]))
       IN \/ \E out \in PipelineOutputs :
                 /\ runs' = [runs EXCEPT ![t] = Append(@, [metadata |-> md, outcome |-> "returned",
                                                            exc |-> <<>>])]
                 /\ output' = [output EXCEPT ![t] = <<out>>]
                 /\ tasks' = [tasks EXCEPT ![t] = <<TaskStatus(t, "writing", <<>>, out, <<>>)>>]
                 /\ statusLog' = [statusLog EXCEPT ![t] = Append(@, "writing")]
                 /\ writers' = [writers EXCEPT ![t] = Append(@, [by |-> "work", to |-> "cache"])]
                 /\ tpc' = [tpc EXCEPT ![t] = "writing"]
                 /\ exc' = exc
          \/ \E e \in PipelineErrors :
                 /\ runs' = [runs EXCEPT ![t] = Append(@, [metadata |-> md, outcome |-> "raised",
                                                            exc |-> <<e>>])]
                 /\ exc' = [exc EXCEPT ![t] = <<e>>]
                 /\ tpc' = [tpc EXCEPT ![t] = "handler"]
                 /\ UNCHANGED <<output, tasks, statusLog, writers>>
    /\ UNCHANGED <<sqlite_available, deepLog, stored, payloads, deep_results, polls, responses, streamVars,
                   configVars, libVars, runVars, execVars, histVars>>

\* _tasks[task_id] = ResearchTaskStatus(status=VALIDATING, ...)
SetValidating(t) ==
    /\ tpc[t] = "writing"
    /\ tasks' = [tasks EXCEPT ![t] = <<TaskStatus(t, "validating", <<>>, output[t][1], <<>>)>>]
    /\ statusLog' = [statusLog EXCEPT ![t] = Append(@, "validating")]
    /\ writers' = [writers EXCEPT ![t] = Append(@, [by |-> "work", to |-> "cache"])]
    /\ tpc' = [tpc EXCEPT ![t] = "validating"]
    /\ UNCHANGED <<sqlite_available, deepLog, stored, payloads, deep_results, polls, exc, output, responses, runs,
                   streamVars, configVars, libVars, runVars, execVars, histVars>>

\* task_status = ResearchTaskStatus(status=COMPLETED, envelope=envelope, ...);
\* _tasks[task_id] = task_status
SetCompleted(t) ==
    /\ tpc[t] = "validating"
    /\ tasks' = [tasks EXCEPT ![t] = <<TaskStatus(t, "completed", <<Envelope(t)>>, output[t][1], <<>>)>>]
    /\ statusLog' = [statusLog EXCEPT ![t] = Append(@, "completed")]
    /\ writers' = [writers EXCEPT ![t] = Append(@, [by |-> "work", to |-> "cache"])]
    /\ tpc' = [tpc EXCEPT ![t] = "save_completed"]
    /\ UNCHANGED <<sqlite_available, deepLog, stored, payloads, deep_results, polls, exc, output, responses, runs,
                   streamVars, configVars, libVars, runVars, execVars, histVars>>

\* _task_storage.save_task(task_status) inside the try, then log and metric: an
\* exception of save_task goes to the except of _process_task.
SaveCompleted(t) ==
    /\ tpc[t] = "save_completed"
    /\ \E o \in SaveOutcomes(sqlite_available, tasks[t][1]) :
           /\ stored' = StoredAfter(o, tasks[t][1])
           /\ writers' = IF o.kind = "written"
                          THEN [writers EXCEPT ![t] = Append(@, [by |-> "work", to |-> "store"])]
                          ELSE writers
           /\ IF o.kind = "raised"
              THEN /\ tpc' = [tpc EXCEPT ![t] = "handler"]
                   /\ exc' = [exc EXCEPT ![t] = o.exc]
              ELSE /\ tpc' = [tpc EXCEPT ![t] = "done"]
                   /\ exc' = exc
    /\ UNCHANGED <<sqlite_available, deepLog, tasks, payloads, deep_results, polls, output, responses, statusLog,
                   runs, streamVars, configVars, libVars, runVars, execVars, histVars>>

\* except Exception as exc: task_status = ResearchTaskStatus(status=FAILED,
\* envelope=None, error=str(exc)); _tasks[task_id] = task_status
Handler(t) ==
    /\ tpc[t] = "handler"
    /\ tasks' = [tasks EXCEPT ![t] = <<TaskStatus(t, "failed", <<>>, NoArtifacts, <<Str(exc[t][1])>>)>>]
    /\ statusLog' = [statusLog EXCEPT ![t] = Append(@, "failed")]
    /\ writers' = [writers EXCEPT ![t] = Append(@, [by |-> "work", to |-> "cache"])]
    /\ tpc' = [tpc EXCEPT ![t] = "save_failed"]
    /\ UNCHANGED <<sqlite_available, deepLog, stored, payloads, deep_results, polls, exc, output, responses, runs,
                   streamVars, configVars, libVars, runVars, execVars, histVars>>

\* _task_storage.save_task(task_status) in the except, then log and metric: an
\* exception of save_task leaves _process_task.
SaveFailed(t) ==
    /\ tpc[t] = "save_failed"
    /\ \E o \in SaveOutcomes(sqlite_available, tasks[t][1]) :
           /\ stored' = StoredAfter(o, tasks[t][1])
           /\ writers' = IF o.kind = "written"
                          THEN [writers EXCEPT ![t] = Append(@, [by |-> "work", to |-> "store"])]
                          ELSE writers
           /\ IF o.kind = "raised"
              THEN /\ tpc' = [tpc EXCEPT ![t] = "crashed"]
                   /\ exc' = [exc EXCEPT ![t] = o.exc]
              ELSE /\ tpc' = [tpc EXCEPT ![t] = "done"]
                   /\ exc' = exc
    /\ UNCHANGED <<sqlite_available, deepLog, tasks, payloads, deep_results, polls, output, responses, statusLog,
                   runs, streamVars, configVars, libVars, runVars, execVars, histVars>>

\* Variant of get_research_task: the row is read and cached also when the task is
\* in the cache.
get_research_task_alwaysReload(t) ==
    /\ LoopFree
    /\ sqlite_available
    /\ stored[t] # <<>>
    /\ tasks' = [tasks EXCEPT ![t] = <<FromRow(stored[t][1])>>]
    /\ statusLog' = [statusLog EXCEPT ![t] = Append(@, stored[t][1].status)]
    /\ writers' = [writers EXCEPT ![t] = Append(@, [by |-> "status_endpoint", to |-> "cache"])]
    /\ UNCHANGED <<sqlite_available, deepLog, stored, tpc, payloads, deep_results, polls, exc, output, responses,
                   runs, streamVars, configVars, libVars, runVars, execVars, histVars>>

\* GET /v1/agent/tasks/{task_id} for a task that is not cached and has a row:
\* _tasks[task_id] = _task_storage.get_task(task_id).  (With the task cached, or
\* without a row, the handler changes nothing.)
get_research_task(t) ==
    /\ LoopFree
    /\ tasks[t] = <<>>
    /\ sqlite_available
    /\ stored[t] # <<>>
    /\ tasks' = [tasks EXCEPT ![t] = <<FromRow(stored[t][1])>>]
    /\ statusLog' = [statusLog EXCEPT ![t] = Append(@, stored[t][1].status)]
    /\ writers' = [writers EXCEPT ![t] = Append(@, [by |-> "status_endpoint", to |-> "cache"])]
    /\ UNCHANGED <<sqlite_available, deepLog, stored, tpc, payloads, deep_results, polls, exc, output, responses,
                   runs, streamVars, configVars, libVars, runVars, execVars, histVars>>

(***************************************************************************)
(* GET /v1/agent/tasks/{task_id}/stream: the event_stream generator.       *)
(***************************************************************************)
\* An event "event: <label>\ndata: <data>\n\n": data is a text, or the JSON of a
\* payload (state is then <<payload>>).
Event(label, text, state) == [label |-> label, text |-> text, state |-> state]

\* yield "event: status\ndata: {\"status\": \"stream_started\"}\n\n"
StartedEvent == Event("status", "stream_started", <<>>)

\* yield "event: error\ndata: {\"error\": \"Task not found\"}\n\n"
NotFoundEvent == Event("error", "Task not found", <<>>)

\* task.dict()
Dict(task) ==
    [task_id |-> task.task_id, status |-> task.status, envelope |-> task.envelope, notes |-> task.notes,
     findings |-> task.findings, evidence |-> task.evidence, error |-> task.error]

\* event_type: "status" unless the status is running, writing, validating,
\* completed or failed.
EventType(status) ==
    IF status \in {"running", "writing", "validating", "completed", "failed"} THEN status ELSE "status"

\* The events for findings, evidence and notes, each if the field is truthy.
SubEvents(task) ==
    (IF task.findings # <<>> THEN <<Event("findings", "findings", <<>>)>> ELSE <<>>)
    \o (IF task.evidence # <<>> THEN <<Event("evidence", "evidence", <<>>)>> ELSE <<>>)
    \o (IF task.notes # {} THEN <<Event("notes", "notes", <<>>)>> ELSE <<>>)

\* Variant of PayloadChanged: every iteration emits.
PayloadChanged_always(payload, last) == TRUE

\* if payload != last_payload (last is <<>> for None, else <<payload>>)
PayloadChanged(payload, last) == last = <<>> \/ payload # last[1]

\* The stream is opened for some task id; up to its first yield.
StreamOpen ==
    /\ LoopFree
    /\ spc = "closed"
    /\ \E s \in AllIds : stream_task' = s
    /\ events' = <<StartedEvent>>
    /\ last_payload' = <<>>
    /\ spc' = "poll"
    /\ UNCHANGED <<stream_polls, taskVars, configVars, libVars, runVars, execVars, histVars>>

\* if task.status in {COMPLETED, FAILED}: break; else sleep and go round again.
StreamAfter(status) == IF status \in TerminalStatuses THEN "ended" ELSE "poll"

\* One iteration of the loop of event_stream: the task is looked up; unknown: the
\* error event and the end; a changed payload: the sub-events, then the event
\* labelled with the status, whose json.dumps(payload) raises on an envelope (the
\* generator dies); then the break on a terminal status, or the sleep.
StreamPoll ==
    /\ LoopFree
    /\ spc = "poll"
    /\ stream_polls < MaxStreamPolls
    /\ stream_polls' = stream_polls + 1
    /\ IF tasks[stream_task] = <<>>
       THEN /\ events' = Append(events, NotFoundEvent)
            /\ spc' = "ended"
            /\ last_payload' = last_payload
       ELSE LET task == tasks[stream_task][1]
                payload == Dict(task)
            IN IF PayloadChanged(payload, last_payload)
               THEN IF JsonDumpsRaises(task)
                    THEN /\ events' = events \o SubEvents(task)
                         /\ spc' = "crashed"
                         /\ last_payload' = last_payload
                    ELSE /\ events' = (events \o SubEvents(task))
                                      \o <<Event(EventType(task.status), "payload", <<payload>>)>>
                         /\ last_payload' = <<payload>>
                         /\ spc' = StreamAfter(task.status)
               ELSE /\ events' = events
                    /\ last_payload' = last_payload
                    /\ spc' = StreamAfter(task.status)
    /\ UNCHANGED <<stream_task, taskVars, configVars, libVars, runVars, execVars, histVars>>

\* The orchestrator build_orchestrator() wires (three attempts, clarifier and fact
\* checker configured), at rest: in the service its run() is _run_sync_research's
\* return or raise.
RunIdle ==
    /\ RunInit
    /\ max_attempts = 3
    /\ clarifier_agent
    /\ fact_checker_agent
    /\ heap = <<[query |-> "Research ACME", metadata |-> ("controls" :> "ctl")]>>

TaskInit ==
    /\ RunIdle
    /\ \E sqlite \in BOOLEAN, oldRows \in {<<>>, <<OldRow>>} : ServerInit(sqlite, oldRows)
    /\ LibIdle

TaskNext ==
    \/ create_research_job
    \/ \E t \in TaskIds : TaskStart(t)
    \/ \E t \in TaskIds : SaveRunning(t)
    \/ \E t \in TaskIds : DeepStart(t)
    \/ \E t \in TaskIds : Poll(t)
    \/ \E t \in TaskIds : PollTimesOut(t)
    \/ \E t \in TaskIds : PollDone(t)
    \/ \E t \in TaskIds : RunSync(t)
    \/ \E t \in TaskIds : SetValidating(t)
    \/ \E t \in TaskIds : SetCompleted(t)
    \/ \E t \in TaskIds : SaveCompleted(t)
    \/ \E t \in TaskIds : Handler(t)
    \/ \E t \in TaskIds : SaveFailed(t)
    \/ \E t \in AllIds : get_research_task(t)


TaskSpec == TaskInit /\ [][TaskNext]_vars

\* The request of the client that then follows its task on the stream.
FirstRequest ==
    /\ responses = <<>>
    /\ create_research_job

\* One task and one stream beside it.
StreamNext ==
    \/ FirstRequest
    \/ \E t \in TaskIds : TaskStart(t)
    \/ \E t \in TaskIds : SaveRunning(t)
    \/ \E t \in TaskIds : DeepStart(t)
    \/ \E t \in TaskIds : Poll(t)
    \/ \E t \in TaskIds : PollTimesOut(t)
    \/ \E t \in TaskIds : PollDone(t)
    \/ \E t \in TaskIds : RunSync(t)
    \/ \E t \in TaskIds : SetValidating(t)
    \/ \E t \in TaskIds : SetCompleted(t)
    \/ \E t \in TaskIds : SaveCompleted(t)
    \/ \E t \in TaskIds : Handler(t)
    \/ \E t \in TaskIds : SaveFailed(t)
    \/ \E t \in AllIds : get_research_task(t)
    \/ StreamOpen
    \/ StreamPoll

StreamSpec == TaskInit /\ [][StreamNext]_vars

(***************************************************************************)
(* Properties of the Stage Executor.                                       *)
(***************************************************************************)
\* The last entry of the stage history: the _call_with_controls call in progress.
CurrentCall == stageLog[Len(stageLog)]

\* C1 (state part): when _call_with_controls returns, after k failed attempts
\* (k < max_attempts) the operation was invoked k+1 times, time.sleep was called k
\* times, and the returned value is a value the operation returned for this call.
C1_StateOnSuccess ==
    exPc = "done" =>
        /\ Len(errors) < max_attempts
        /\ calls = Len(errors) + 1
        /\ sleeps = Len(errors)
        /\ future = "returned"
        /\ worker = "idle"
        /\ Len(stage_result) = 1
        /\ stage_result[1] \in OperationValues(stage, stage_args)

\* C1: an operation that fails k < max_attempts times and then succeeds is invoked
\* exactly k+1 times with exactly k sleeps and its value is returned; after the
\* success no further attempt of that stage call is made (the only invocations that
\* follow belong to the next stage call, which starts its count at 0).
C1_FailsThenSucceeds ==
    /\ []C1_StateOnSuccess
    /\ [][exPc = "done" => (worker' = "idle" /\ (calls' = calls \/ calls' = 0)
                             /\ stage_result' \in {stage_result, <<>>})]_vars

\* C1 witness: a stage call returned after max_attempts - 1 >= 2 failures, one of
\* them a timeout.
C1_Witness ==
    /\ exPc = "done"
    /\ Len(errors) = max_attempts - 1
    /\ Len(errors) >= 2
    /\ \E i \in 1..Len(errors) : errors[i] = TimeoutErr

\* C2 (state part): when run() has raised, the operation of the failing stage was
\* invoked max_attempts times, every one failed, and the one error raised names the
\* stage, max_attempts, and type and message of the last failure.
C2_StateOnExhaustion ==
    pc = "raised" =>
        /\ calls = max_attempts
        /\ Len(errors) = max_attempts
        /\ run_return = <<>>
        /\ run_error = <<[stage |-> CurrentCall.stage,
                          attempts |-> max_attempts,
                          error_type |-> errors[Len(errors)].type,
                          error_msg |-> errors[Len(errors)].msg]>>

\* C2: if every attempt of a stage fails, by raising or by timing out, the operation
\* is invoked exactly max_attempts times and then one OrchestrationError is raised,
\* naming the stage, the attempt count and the type and message of the last error:
\* after the max_attempts-th failure the next step of the executor is the raise.
C2_AllAttemptsFail ==
    /\ []C2_StateOnExhaustion
    /\ [][(Len(errors) = max_attempts /\ exPc = "loop")
            => (pc' = "raised" /\ calls' = calls /\ Len(run_error') = 1)]_vars

\* C2 witness: a stage exhausted three attempts, the first by timeout, the last by
\* an exception different from the second failure.
C2_Witness ==
    /\ pc = "raised"
    /\ Len(errors) = 3
    /\ errors[1] = TimeoutErr
    /\ errors[2].type = "RuntimeError"
    /\ errors[3].type = "ValueError"

\* C3: when an attempt's operation outlives timeout_seconds, the caller of the
\* Stage Executor has control again at the timeout: whenever the caller has left
\* future.result() with the operation unfinished, it is in the backoff or at the
\* next attempt, not waiting for the operation.
C3_CallerRegainsControlAtTimeout ==
    (future = "pending" /\ exPc # "result_wait") => exPc \in {"sleep", "loop"}

(***************************************************************************)
(* Properties of Orchestrator.run.                                         *)
(***************************************************************************)
\* The stage calls made so far, as <<stage, pass_index>> pairs.
StageTrace == [i \in 1..Len(stageLog) |-> <<stageLog[i].stage, stageLog[i].args.pass_index>>]

\* classify, clarify if withClarify, research passes 0..passes-1, compose.
ExpectedTrace(passes, withClarify) ==
    <<<<"router", NoPass>>>>
    \o (IF withClarify THEN <<<<"clarifier", NoPass>>>> ELSE <<>>)
    \o [i \in 1..passes |-> <<"researcher", i - 1>>]
    \o <<<<"writer", NoPass>>>>

\* How many times the clarifier stage was called.
ClarifierCalls == Cardinality({i \in 1..Len(stageLog) : stageLog[i].stage = "clarifier"})

\* The research stage calls, in call order.
IsResearchCall(e) == e.stage = "researcher"
ResearchCalls == SelectSeq(stageLog, IsResearchCall)

\* C4 (state part): a run() that returned made its stage calls in the order classify,
\* clarify at most once, research passes 0..passes-1, compose once, none skipped, and
\* never called the fact checker.
C4_StateOnReturn ==
    /\ fact_checks = 0
    /\ pc = "returned" =>
           \E withClarify \in BOOLEAN : StageTrace = ExpectedTrace(plan[1].passes, withClarify)

\* C4: in every run() that returns the stages were called in the order classify,
\* (clarify), research 0..passes-1, compose; a stage call starts only when the previous
\* stage call has returned a result and its worker is idle; the fact checker is never
\* invoked, configured or not.
C4_StageOrder ==
    /\ []C4_StateOnReturn
    /\ [][stageLog' # stageLog =>
            /\ Len(stageLog') = Len(stageLog) + 1
            /\ SubSeq(stageLog', 1, Len(stageLog)) = stageLog
            /\ worker = "idle"
            /\ (stageLog = <<>> \/ (exPc = "done" /\ future = "returned"))]_vars

\* C4 witness: a run with a configured fact checker returned after classify, clarify,
\* three research passes and compose.
C4_Witness ==
    /\ pc = "returned"
    /\ fact_checker_agent
    /\ StageTrace = ExpectedTrace(3, TRUE)

\* C5: the clarifier stage is called at most once, and, once classification has
\* returned, exactly when needs_clarification is true and a clarifier is configured;
\* with needs_clarification true and no clarifier the run goes on to the first research
\* pass with the request object it was given, and no failure is attributed to clarify.
C5_ClarifierIffFlaggedAndConfigured ==
    /\ ClarifierCalls <= 1
    /\ router_decision = <<>> => ClarifierCalls = 0
    /\ router_decision # <<>> =>
           (ClarifierCalls = 1 <=> (router_decision[1].needs_clarification /\ clarifier_agent))
    /\ (router_decision # <<>> /\ router_decision[1].needs_clarification /\ ~clarifier_agent) =>
           /\ Len(stageLog) >= 2
           /\ stageLog[2].stage = "researcher"
           /\ stageLog[2].args.request = request
           /\ clarified_request = request
           /\ heap[request].metadata \in InitialMetadata
           /\ (pc = "raised" => run_error[1].stage \in {"researcher", "writer"})

\* C5 witness: a run returned with needs_clarification true and no clarifier configured.
C5_Witness ==
    /\ pc = "returned"
    /\ router_decision[1].needs_clarification
    /\ ~clarifier_agent

\* The request the research passes and the writer must get: metadata is the original
\* metadata plus the key "clarification" bound to the clarifier's output.
IsClarifiedCopy(r) ==
    /\ Len(clarification) = 1
    /\ heap[r].query = heap[request].query
    /\ DOMAIN heap[r].metadata = DOMAIN heap[request].metadata \cup {"clarification"}
    /\ heap[r].metadata["clarification"] = clarification[1]
    /\ \A k \in DOMAIN heap[request].metadata \ {"clarification"} :
           heap[r].metadata[k] = heap[request].metadata[k]

\* C6 (state part): every research pass and the writer are called with one and the
\* same request: the clarified copy if the clarifier was called, else the original.
C6_StateRequests ==
    /\ \A i \in 1..Len(stageLog) :
           stageLog[i].stage \in {"researcher", "writer"} =>
               /\ stageLog[i].args.request = clarified_request
               /\ IF ClarifierCalls = 1
                  THEN IsClarifiedCopy(stageLog[i].args.request)
                  ELSE stageLog[i].args.request = request
    /\ writer_payload # <<>> => writer_payload[1].request = clarified_request
    /\ heap[request].metadata \in InitialMetadata

\* C6: research passes and compose receive the same request, whose metadata is the
\* original metadata merged with the clarifier's output when the clarifier was invoked,
\* and the original request otherwise; no step changes the original request object.
C6_ClarifiedRequest ==
    /\ []C6_StateRequests
    /\ [][heap'[request] = heap[request] /\ request' = request]_vars

\* C6 witness: a run returned whose clarifier output replaced a stale "clarification"
\* key in the copy handed to the passes, the original still carrying the stale value.
C6_Witness ==
    /\ pc = "returned"
    /\ ClarifierCalls = 1
    /\ "clarification" \in DOMAIN heap[request].metadata
    /\ heap[request].metadata["clarification"] = "stale"
    /\ heap[clarified_request].metadata["clarification"] = "clarB"

\* C7: research_results[i] is the result of the i-th research call, which was made
\* with pass_index i (counted from 0), at every point of the loop; a run() that returns
\* hands back that list, of length plan.passes.
C7_ResearchResultsInPassOrder ==
    /\ Len(research_results) <= Len(ResearchCalls)
    /\ \A i \in 1..Len(research_results) :
           /\ research_results[i] = ResearchCalls[i].args
           /\ research_results[i].pass_index = i - 1
    /\ pc = "returned" =>
           /\ run_return[1].research_results = research_results
           /\ Len(run_return[1].research_results) = run_return[1].plan.passes
           /\ Len(ResearchCalls) = run_return[1].plan.passes

\* C7 witness: a deep run returned three results.
C7_Witness ==
    /\ pc = "returned"
    /\ Len(run_return[1].research_results) = 3
    /\ run_return[1].research_results[3].pass_index = 2

\* C8 (state part): when run() has raised, the error is the OrchestrationError of the
\* stage called last, which failed max_attempts times; nothing is returned.
C8_StateOnRaise ==
    pc = "raised" =>
        /\ run_return = <<>>
        /\ Len(run_error) = 1
        /\ run_error[1].stage = CurrentCall.stage
        /\ Len(errors) = max_attempts
        /\ exPc = "idle"
        /\ worker = "idle"

\* C8: a stage that exhausts its retries makes run() raise at its next step; after the
\* raise no stage or pass is called, no operation is invoked and no result appears, also
\* when earlier passes have succeeded.
C8_ExhaustedStageAbortsRun ==
    /\ []C8_StateOnRaise
    /\ [][(exPc = "loop" /\ attempt >= max_attempts) => (pc' = "raised" /\ run_return' = <<>>)]_vars
    /\ [][pc = "raised" => (pc' = "raised" /\ stageLog' = stageLog /\ calls' = calls
                             /\ run_return' = <<>> /\ run_error' = run_error)]_vars

\* C8 witness: the third research pass exhausted its retries after two passes had
\* succeeded.
C8_Witness ==
    /\ pc = "raised"
    /\ run_error[1].stage = "researcher"
    /\ Len(research_results) = 2
    /\ CurrentCall.args.pass_index = 2

\* C9 (state part): after a run() that returned, output["quality"] is a QualityReport:
\* the writer's own when the writer returned a QualityReport, else the placeholder
\* with scores 0.8 and 0.7, no missing sections and no flags.
C9_StateQuality ==
    pc = "returned" =>
        LET w == stage_result[1]
            q == run_return[1].output.quality
        IN /\ Len(q) = 1
           /\ q[1].cls = "QualityReport"
           /\ run_return[1].output.envelope = w.envelope
           /\ IF w.quality # <<>> /\ w.quality[1].cls = "QualityReport"
              THEN q = w.quality
              ELSE /\ q[1].citation_coverage_score = 8
                   /\ q[1].template_completeness_score = 7
                   /\ q[1].missing_sections = <<>>
                   /\ ~q[1].uncited_numbers
                   /\ ~q[1].contradictions
                   /\ q[1].broken_urls = <<>>
                   /\ q[1].low_relevance_citations = <<>>

\* C9: output["quality"] of a returned run is the composer's QualityReport unchanged,
\* or the neutral placeholder when the composer gave none; whatever the writer's dict
\* holds for quality, the step after the writer stage is the return of run().
C9_QualityAlwaysPresent ==
    /\ []C9_StateQuality
    /\ [][(pc = "writer" /\ exPc = "done") => (pc' = "returned" /\ run_error' = <<>>)]_vars

\* C9 witness: a run returned whose writer gave no quality entry.
C9_Witness ==
    /\ pc = "returned"
    /\ stage_result[1].quality = <<>>
    /\ run_return[1].output.quality = <<PlaceholderQuality>>

\* Equality of two ASCII strings up to the case of their letters.
EqIgnoreCase(a, b) ==
    /\ Len(a) = Len(b)
    /\ \A i \in 1..Len(a) :
           \/ a[i] = b[i]
           \/ (a[i] \in 65..90 /\ b[i] = a[i] + 32)
           \/ (b[i] \in 65..90 /\ a[i] = b[i] + 32)

\* C10: the plan built from the router's depth label is: quick (any case) -> 1 pass,
\* not persistent, minimal_search, no tasks; deep (any case) -> 3 passes, persistent,
\* multi_pass_search_with_synthesis, one task with pass_index 0 and status created;
\* any other label -> 2 passes, not persistent, iterative_search, no tasks.  So
\* passes >= 1 and tasks is non-empty exactly when persistent_task is true.
C10_DepthPolicyTable ==
    plan # <<>> =>
        LET d == router_decision[1].depth
            p == plan[1]
        IN /\ EqIgnoreCase(d, S_quick) =>
                  p = [passes |-> 1, persistent_task |-> FALSE,
                       search_profile |-> "minimal_search", tasks |-> <<>>]
           /\ EqIgnoreCase(d, S_deep) =>
                  /\ p.passes = 3
                  /\ p.persistent_task
                  /\ p.search_profile = "multi_pass_search_with_synthesis"
                  /\ Len(p.tasks) = 1
                  /\ p.tasks[1].pass_index = 0
                  /\ p.tasks[1].status = "created"
           /\ (~EqIgnoreCase(d, S_quick) /\ ~EqIgnoreCase(d, S_deep)) =>
                  p = [passes |-> 2, persistent_task |-> FALSE,
                       search_profile |-> "iterative_search", tasks |-> <<>>]
           /\ p.passes >= 1
           /\ (p.tasks # <<>>) <=> p.persistent_task

\* C10 witness: the label "DeEp" was classified and gave the deep plan.
C10_Witness ==
    /\ plan # <<>>
    /\ router_decision[1].depth = S_Deep
    /\ plan[1].passes = 3
    /\ plan[1].tasks = <<SeededTask>>

\* C11: the Depth Policy is total: whatever depth the classification stage handed
\* over, run() never fails while building the plan, and once the router stage has
\* returned a plan exists, which is the standard plan (2 passes, not persistent,
\* iterative_search, no tasks) for every depth that is neither quick nor deep.
C11_DepthPolicyTotal ==
    /\ pc # "plan_error"
    /\ router_decision # <<>> =>
           /\ plan # <<>>
           /\ (~EqIgnoreCase(router_decision[1].depth, S_quick)
                  /\ ~EqIgnoreCase(router_decision[1].depth, S_deep)) =>
                  plan[1] = [passes |-> 2, persistent_task |-> FALSE,
                             search_profile |-> "iterative_search", tasks |-> <<>>]

(***************************************************************************)
(* Properties of the task service.                                         *)
(***************************************************************************)
\* C12: once the status of a task in the cache is completed or failed, no later
\* step of its background work (persistence write, metric, log) writes another
\* status: a terminal status is the last one written for the task.
C12_TerminalStatusIsFinal ==
    \A t \in AllIds :
        \A i \in 1..Len(statusLog[t]) :
            statusLog[t][i] \in TerminalStatuses => i = Len(statusLog[t])

\* The status changes the lifecycle allows: the chain queued, running, writing,
\* validating, completed, and running, writing or validating to failed.
AllowedTransitions ==
    { <<"queued", "running">>, <<"running", "writing">>, <<"writing", "validating">>,
      <<"validating", "completed">>,
      <<"running", "failed">>, <<"writing", "failed">>, <<"validating", "failed">> }

\* C13: the statuses written for a submitted task start with queued, and every change
\* is one step of queued, running, writing, validating, completed or leads from
\* running, writing or validating to failed; so queued is never followed by a
\* terminal status and completed is reached through writing and validating only.
C13_TransitionOrder ==
    \A t \in TaskIds :
        /\ statusLog[t] # <<>> => statusLog[t][1] = "queued"
        /\ \A i \in 1..(Len(statusLog[t]) - 1) :
               <<statusLog[t][i], statusLog[t][i + 1]>> \in AllowedTransitions

\* C14: whenever a status write of a task is over (its coroutine is at an await or
\* has ended) and sqlite3 is there, a load of the task from the database gives the
\* status the cache holds.
C14_CacheAndStorageAgree ==
    (sqlite_available /\ LoopFree) =>
        \A t \in TaskIds :
            tasks[t] # <<>> =>
                /\ stored[t] # <<>>
                /\ FromRow(stored[t][1]).status = tasks[t][1].status

\* C15: background work that was started and has ended, by returning or by an
\* exception, has left its task completed or failed: a task whose work has ended in
\* another status keeps it for ever, nothing else writing statuses.
C15_EndedWorkIsTerminal ==
    \A t \in TaskIds :
        tpc[t] \in {"done", "crashed"} => tasks[t][1].status \in TerminalStatuses

\* C16: for a deep task whose provider job could not be started or whose polling
\* timed out (a reported failure ends in the timeout), the task is still running
\* when the pipeline is called, the pipeline is called with the controls as its only
\* metadata (no deep_results), and when the work has ended the status is completed
\* if the pipeline returned and failed if it raised.
C16_DeepFailureFallsBack ==
    \A t \in TaskIds :
        deepLog[t] \in {"start_failed", "timed_out"} =>
            /\ tpc[t] \in {"poll_raised", "sync"} => tasks[t][1].status = "running"
            /\ runs[t] # <<>> => runs[t][1].metadata = {<<"controls", payloads[t][1]>>}
            /\ tpc[t] \in {"done", "crashed"} =>
                   /\ Len(runs[t]) = 1
                   /\ tasks[t][1].status =
                          IF runs[t][1].outcome = "returned" THEN "completed" ELSE "failed"

\* The last pipeline call of task t raised.
PipelineRaised(t) == runs[t] # <<>> /\ runs[t][Len(runs[t])].outcome = "raised"

\* C17: when the pipeline of the background work has raised e (also as the fallback of
\* a failed deep job), the next step of the work is the except block, and from then on
\* the task is failed in the cache, its error is the message of e and nothing else,
\* and it has no envelope, whatever the persistence write after it does.
C17_PipelineErrorPreserved ==
    \A t \in TaskIds :
        PipelineRaised(t) =>
            /\ tpc[t] \in {"handler", "save_failed", "done", "crashed"}
            /\ tpc[t] # "handler" =>
                   /\ tasks[t][1].status = "failed"
                   /\ tasks[t][1].error = << <<runs[t][Len(runs[t])].exc[1].msg>> >>
                   /\ tasks[t][1].envelope = <<>>

\* C17 witness: a deep task whose provider job could not be started and whose
\* fallback pipeline raised the OrchestrationError has ended failed with that text,
\* the write of the failed status having raised as well.
C17_Witness ==
    \E t \in TaskIds :
        /\ deepLog[t] = "start_failed"
        /\ PipelineRaised(t)
        /\ runs[t][1].exc[1].type = "OrchestrationError"
        /\ tpc[t] = "crashed"
        /\ tasks[t][1].status = "failed"
        /\ tasks[t][1].error =
               << <<"router agent failed after 3 attempts: RuntimeError: planned failure">> >>

\* The task ids create_research_job has handed out.
IssuedIds == {responses[i].task_id[1] : i \in {j \in 1..Len(responses) : responses[j].kind = "task_created"}}

\* C18 (state part): a request was answered with a task id exactly when its async
\* flag was set or its depth was deep; the ids handed out differ from each other and
\* from the ids of the database's old rows; each names a cached task that started as
\* queued with the request's payload; no other task record exists for a request.
C18_StateOfResponses ==
    /\ \A i \in 1..Len(responses) :
           LET r == responses[i]
           IN /\ (r.kind = "task_created") <=> (r.payload.async_mode \/ r.payload.depth = "deep")
              /\ r.kind = "task_created" =>
                     /\ Len(r.task_id) = 1
                     /\ r.task_id[1] \notin OldIds
                     /\ r.status = <<"queued">>
                     /\ tasks[r.task_id[1]] # <<>>
                     /\ statusLog[r.task_id[1]][1] = "queued"
                     /\ payloads[r.task_id[1]] = <<r.payload>>
                     /\ \A j \in 1..Len(responses) :
                            (j # i /\ responses[j].kind = "task_created") =>
                                responses[j].task_id # r.task_id
              /\ r.kind # "task_created" => r.task_id = <<>>
    /\ {t \in TaskIds : tasks[t] # <<>>} = IssuedIds

\* C18: a request is handled asynchronously exactly when its async flag is set or its
\* depth is deep; the step that answers it with a task id takes an id no cached or
\* stored task has, leaves the task queued in the cache with its background work not
\* yet started and no pipeline call made for it; the step that answers a synchronous
\* request changes no task record.
C18_AsyncSubmission ==
    /\ []C18_StateOfResponses
    /\ [][responses' # responses =>
            LET r == responses'[Len(responses')]
            IN /\ responses' = Append(responses, r)
               /\ IF r.kind = "task_created"
                  THEN /\ tasks[r.task_id[1]] = <<>>
                       /\ stored[r.task_id[1]] = <<>>
                       /\ tasks'[r.task_id[1]][1].status = "queued"
                       /\ tpc'[r.task_id[1]] = "scheduled"
                       /\ runs'[r.task_id[1]] = <<>>
                       /\ \A u \in AllIds \ {r.task_id[1]} : tasks'[u] = tasks[u]
                  ELSE /\ tasks' = tasks
                       /\ tpc' = tpc]_vars

\* C18 witness: with an old row in the database, a deep request without the flag and
\* then a flagged quick request were answered with two different ids, the second
\* task being queued with its background work not started.
C18_Witness ==
    /\ Len(responses) = 2
    /\ stored[0] # <<>>
    /\ responses[1].payload = [async_mode |-> FALSE, depth |-> "deep"]
    /\ responses[1].kind = "task_created"
    /\ responses[2].payload = [async_mode |-> TRUE, depth |-> "quick"]
    /\ responses[2].kind = "task_created"
    /\ responses[1].task_id # responses[2].task_id
    /\ tpc[responses[2].task_id[1]] = "scheduled"
    /\ tasks[responses[2].task_id[1]][1].status = "queued"

(***************************************************************************)
(* Properties of the event stream.                                         *)
(***************************************************************************)
\* The events that carry a serialized task state, in the order of their emission.
CarriesState(e) == e.state # <<>>
StateEvents == SelectSeq(events, CarriesState)

\* The serialized state of the task the stream follows.
StreamedState ==
    LET task == tasks[stream_task][1]
    IN [task_id |-> task.task_id, status |-> task.status, envelope |-> task.envelope,
        notes |-> task.notes, findings |-> task.findings, evidence |-> task.evidence,
        error |-> task.error]

\* C19 (state part): two state events emitted one after the other carry different
\* states, and last_payload is the state of the last one.
C19_StateEventsDiffer ==
    /\ \A i \in 1..(Len(StateEvents) - 1) : StateEvents[i].state # StateEvents[i + 1].state
    /\ last_payload = IF StateEvents = <<>> THEN <<>> ELSE StateEvents[Len(StateEvents)].state

\* C19: an iteration of the stream's loop that finds the task's serialized state equal
\* to the state of the event emitted before emits nothing; an iteration emits at most
\* one state event, labelled with the task's status (status for queued), and only
\* with a state that differs from the one emitted before.
C19_NoRedundantEmission ==
    /\ []C19_StateEventsDiffer
    /\ [][(stream_polls' = stream_polls + 1 /\ tasks[stream_task] # <<>>) =>
            /\ (last_payload # <<>> /\ last_payload[1] = StreamedState) => events' = events
            /\ Len(StateEvents') <= Len(StateEvents) + 1
            /\ Len(StateEvents') = Len(StateEvents) + 1 =>
                   /\ events'[Len(events')].state = <<StreamedState>>
                   /\ <<StreamedState>> # last_payload
                   /\ events'[Len(events')].label =
                          IF StreamedState.status = "queued" THEN "status" ELSE StreamedState.status]_vars

\* C19 witness: three iterations on a running deep task gave two state events, both
\* labelled running, the second carrying a note the polling thread merged in between;
\* one iteration emitted nothing.
C19_Witness ==
    /\ stream_polls = 3
    /\ Len(events) = 4
    /\ Len(StateEvents) = 2
    /\ StateEvents[1].label = "running"
    /\ StateEvents[2].label = "running"
    /\ StateEvents[1].state[1].notes = {}
    /\ StateEvents[2].state[1].notes = {"n1"}

\* C20: a completed or failed event is the last event of the stream and the stream
\* has ended with it; a stream that has ended, in whatever way, on a task the cache
\* holds has emitted a completed or failed event as its last one (the other end is
\* the error event for an unknown task).
C20_EndsOnTerminalEvent ==
    /\ \A i \in 1..Len(events) :
           events[i].label \in TerminalStatuses => (i = Len(events) /\ spc = "ended")
    /\ spc \in {"ended", "crashed"} =>
           \/ events[Len(events)] = NotFoundEvent
           \/ events[Len(events)].label \in TerminalStatuses

\* The events an iteration of the stream's loop has added.
EmittedBy(before, after) == SubSeq(after, Len(before) + 1, Len(after))

\* The labels the events for a changed state are due to carry: findings, evidence
\* and notes for the fields the state has, then the label of its status.
DueLabels(state) ==
    (IF state.findings # <<>> THEN <<"findings">> ELSE <<>>)
    \o (IF state.evidence # <<>> THEN <<"evidence">> ELSE <<>>)
    \o (IF state.notes # {} THEN <<"notes">> ELSE <<>>)
    \o <<IF state.status = "queued" THEN "status" ELSE state.status>>

\* C21: an iteration of the stream's loop that finds the task's state changed emits a
\* findings event if the state has findings, an evidence event if it has evidence
\* and a notes event if it has notes, and after them the event labelled with the
\* status that carries that same state.
C21_SubEventsBeforeStatus ==
    [][(/\ stream_polls' = stream_polls + 1
        /\ tasks[stream_task] # <<>>
        /\ (last_payload = <<>> \/ last_payload[1] # StreamedState)) =>
            LET new == EmittedBy(events, events')
            IN /\ Len(new) = Len(DueLabels(StreamedState))
               /\ \A i \in 1..Len(new) : new[i].label = DueLabels(StreamedState)[i]
               /\ new[Len(new)].state = <<StreamedState>>]_vars

(***************************************************************************)
(* Source ranking: app/agents/research.py (_filter_by_preference, _rank)   *)
(* and web_search_agent/search_ranking.py (rank_search_results).  This is  *)
(* specification RankSpec: a list of search results is drawn, and either   *)
(* the agent's two passes or the library call is applied to it.            *)
(***************************************************************************)
\* Results in the list handed to a ranking call.
MaxResults == 3

\* source_type labels, as texts (tuples of ASCII codes): the labels of the
\* preference table, and reporting, blog and Official, which it does not hold.
Label ==
    [ primary |-> <<112, 114, 105, 109, 97, 114, 121>>,
      regulator |-> <<114, 101, 103, 117, 108, 97, 116, 111, 114>>,
      filing |-> <<102, 105, 108, 105, 110, 103>>,
      official |-> <<111, 102, 102, 105, 99, 105, 97, 108>>,
      analyst |-> <<97, 110, 97, 108, 121, 115, 116>>,
      news |-> <<110, 101, 119, 115>>,
      community |-> <<99, 111, 109, 109, 117, 110, 105, 116, 121>>,
      unknown |-> <<117, 110, 107, 110, 111, 119, 110>>,
      reporting |-> <<114, 101, 112, 111, 114, 116, 105, 110, 103>>,
      blog |-> <<98, 108, 111, 103>>,
      Official |-> <<79, 102, 102, 105, 99, 105, 97, 108>> ]

\* The names of the members of SourceType, as texts.
MemberName ==
    [ OFFICIAL |-> <<79, 70, 70, 73, 67, 73, 65, 76>>,
      REPORTING |-> <<82, 69, 80, 79, 82, 84, 73, 78, 71>>,
      COMMUNITY |-> <<67, 79, 77, 77, 85, 78, 73, 84, 89>>,
      UNKNOWN |-> <<85, 78, 75, 78, 79, 87, 78>> ]

\* str.upper() on ASCII text: a..z (97..122) map to A..Z, the rest is kept.
Upper(s) == [i \in 1..Len(s) |-> IF s[i] >= 97 /\ s[i] <= 122 THEN s[i] - 32 ELSE s[i]]

\* SOURCE_PREFERENCE_ORDER
SOURCE_PREFERENCE_ORDER ==
    <<Label.primary, Label.regulator, Label.filing, Label.official, Label.analyst,
      Label.news, Label.community, Label.unknown>>

\* class SourceType(str, Enum): the members, by name, with their values.
SourceType ==
    { [name |-> MemberName.OFFICIAL, value |-> Label.official],
      [name |-> MemberName.REPORTING, value |-> Label.reporting],
      [name |-> MemberName.COMMUNITY, value |-> Label.community],
      [name |-> MemberName.UNKNOWN, value |-> Label.unknown] }

\* getattr(SourceType, name, SourceType.UNKNOWN)
GetSourceType(name) ==
    IF \E m \in SourceType : m.name = name
    THEN (CHOOSE m \in SourceType : m.name = name).value
    ELSE Label.unknown

\* SOURCE_WEIGHTS, in hundredths (1.25 is 125); a type it does not hold has the
\* weight of UNKNOWN.
SOURCE_WEIGHTS(source_type) ==
    IF source_type = Label.official THEN 125
    ELSE IF source_type = Label.reporting THEN 100
    ELSE IF source_type = Label.community THEN 70
    ELSE 60

\* PREFERENCE_BONUS, in ten-thousandths (0.15 is 1500); 0 for a type it does not hold.
PREFERENCE_BONUS(source_type) ==
    IF source_type = Label.official THEN 1500
    ELSE IF source_type = Label.reporting THEN 500
    ELSE IF source_type = Label.community THEN 0 - 500
    ELSE IF source_type = Label.unknown THEN 0 - 1000
    ELSE 0

\* SearchResult.weighted_score, in ten-thousandths; base_score is in hundredths.
weighted_score(result) ==
    (result.base_score * SOURCE_WEIGHTS(result.source_type)) + PREFERENCE_BONUS(result.source_type)

\* sorted(seq, key=...): the elements in ascending order of their keys, elements
\* with equal keys in their order in seq (keys[i] is the key of seq[i]).
sorted(seq, keys) ==
    [k \in 1..Len(seq) |->
        seq[CHOOSE i \in 1..Len(seq) :
                Cardinality({j \in 1..Len(seq) :
                                 keys[j] < keys[i] \/ (keys[j] = keys[i] /\ j < i)}) = k - 1]]

\* sorted(seq, key=..., reverse=True): descending order of the keys, elements
\* with equal keys still in their order in seq.
sorted_reverse(seq, keys) == sorted(seq, [i \in 1..Len(seq) |-> 0 - keys[i]])

\* Variant of rank_search_results: nothing is removed.
rank_search_results_unfiltered(results, disallowed_types) ==
    sorted_reverse(results, [i \in 1..Len(results) |-> weighted_score(results[i])])

\* rank_search_results(results, disallowed_types)
rank_search_results(results, disallowed_types) ==
    LET Allowed(result) == result.source_type \notin disallowed_types
        filtered_results == SelectSeq(results, Allowed)
    IN sorted_reverse(filtered_results,
                      [i \in 1..Len(filtered_results) |-> weighted_score(filtered_results[i])])

\* preference_rank.get(result.source_type, len(SOURCE_PREFERENCE_ORDER)): the index
\* of the label in the table, from 0; the table's length for any other label.
preference_rank(source_type) ==
    IF \E i \in 1..Len(SOURCE_PREFERENCE_ORDER) : SOURCE_PREFERENCE_ORDER[i] = source_type
    THEN (CHOOSE i \in 1..Len(SOURCE_PREFERENCE_ORDER) : SOURCE_PREFERENCE_ORDER[i] = source_type) - 1
    ELSE Len(SOURCE_PREFERENCE_ORDER)

\* ResearchAgent._filter_by_preference
filter_by_preference(results) ==
    sorted(results, [i \in 1..Len(results) |-> preference_rank(results[i].source_type)])

\* to_ranked: the label is looked up, in upper case, among the names of SourceType;
\* base_score is left at its default 1.0.
to_ranked(result) ==
    [title |-> result.title, url |-> result.url, snippet |-> result.snippet,
     source_type |-> GetSourceType(Upper(result.source_type)), base_score |-> 100]

\* ResearchAgent._rank: the lightweight SearchResult built back from a ranked
\* item has source_type=item.source_type.value.
rank(results) ==
    LET ranked_items == rank_search_results([i \in 1..Len(results) |-> to_ranked(results[i])], {})
    IN [i \in 1..Len(ranked_items) |->
          [title |-> ranked_items[i].title, url |-> ranked_items[i].url,
           snippet |-> ranked_items[i].snippet, source_type |-> ranked_items[i].source_type]]

\* The i-th result of a list: title and url are the texts "Title i" and
\* "https://example.com/i", kept as the number i.
Hit(i, source_type) == [title |-> i, url |-> i, snippet |-> "Snippet", source_type |-> source_type]

\* The lists handed to the agent's ranking, with the labels the transport puts
\* on results in this model.
AgentInputs ==
    LET labels == {Label.regulator, Label.news, Label.community, Label.official,
                   Label.reporting, Label.blog, Label.Official}
    IN UNION { { [i \in 1..n |-> Hit(i, f[i])] : f \in [1..n -> labels] } : n \in 0..MaxResults }

\* The lists handed to rank_search_results directly: source_type is a SourceType
\* member (referred to by its value), base_score is 0.6 or 0.9 as in
\* test_search_ranking.py, in hundredths.
LibraryInputs ==
    UNION { { [i \in 1..n |-> [title |-> i, url |-> i, snippet |-> "Snippet",
                               source_type |-> f[i][1], base_score |-> f[i][2]]] :
              f \in [1..n -> {m.value : m \in SourceType} \X {60, 90}] } : n \in 0..MaxResults }

\* disallowed_types arguments.
DisallowedChoices == {{}, {Label.community}, {Label.community, Label.unknown}, {Label.official}}

\* A ranking call is about to be made: by the research agent on what the search
\* returned, or by a caller of rank_search_results.
RankInit ==
    /\ RunIdle
    /\ ServerInit(TRUE, <<>>)
    /\ CacheIdle
    /\ ResearchIdle
    /\ PollIdle
    /\ filtered = <<>>
    /\ ranked = <<>>
    /\ \/ /\ rank_pc = "agent"
          /\ results_in \in AgentInputs
          /\ disallowed = {}
       \/ /\ rank_pc = "library"
          /\ results_in \in LibraryInputs
          /\ disallowed \in DisallowedChoices

\* filtered = self._filter_by_preference(raw_results)
FilterCall ==
    /\ rank_pc = "agent"
    /\ filtered' = <<filter_by_preference(results_in)>>
    /\ rank_pc' = "filtered"
    /\ UNCHANGED <<results_in, disallowed, ranked, cacheVars, researchVars, pollVars, serverVars, configVars,
                   runVars, execVars, histVars>>

\* ranked = self._rank(filtered): the "preferred" list
RankCall ==
    /\ rank_pc = "filtered"
    /\ ranked' = <<rank(filtered[1])>>
    /\ rank_pc' = "done"
    /\ UNCHANGED <<results_in, disallowed, filtered, cacheVars, researchVars, pollVars, serverVars, configVars,
                   runVars, execVars, histVars>>

\* rank_search_results(results, disallowed_types=...)
LibraryRankCall ==
    /\ rank_pc = "library"
    /\ ranked' = <<rank_search_results(results_in, disallowed)>>
    /\ rank_pc' = "done"
    /\ UNCHANGED <<results_in, disallowed, filtered, cacheVars, researchVars, pollVars, serverVars, configVars,
                   runVars, execVars, histVars>>

RankNext ==
    \/ FilterCall
    \/ RankCall
    \/ LibraryRankCall

RankSpec == RankInit /\ [][RankNext]_vars

(***************************************************************************)
(* Properties of source ranking.                                           *)
(***************************************************************************)
\* The position of the result with the given title in a list (0 if it is not there).
PositionOf(list, title) ==
    IF \E i \in 1..Len(list) : list[i].title = title
    THEN CHOOSE i \in 1..Len(list) : list[i].title = title
    ELSE 0

\* The place of a label in the preference table (primary 1 ... unknown 8), 0 for a
\* label the table does not hold.
TablePlace(label) ==
    IF label = Label.primary THEN 1 ELSE IF label = Label.regulator THEN 2 ELSE IF label = Label.filing THEN 3
    ELSE IF label = Label.official THEN 4 ELSE IF label = Label.analyst THEN 5 ELSE IF label = Label.news THEN 6
    ELSE IF label = Label.community THEN 7 ELSE IF label = Label.unknown THEN 8 ELSE 0

\* The research agent's ranking has returned its preferred list.
AgentRanked == rank_pc = "done" /\ filtered # <<>>

\* C22: the preferred list holds the results of the input with their source_type
\* labels unchanged, and of two results whose labels are both in the preference
\* table (all have the same base relevance) the one whose label comes earlier in
\* the table appears earlier.
C22_PreferenceOrderKept ==
    AgentRanked =>
        LET preferred == ranked[1]
        IN /\ Len(preferred) = Len(results_in)
           /\ \A i \in 1..Len(results_in) : \E k \in 1..Len(preferred) : preferred[k] = results_in[i]
           /\ \A i, j \in 1..Len(results_in) :
                  (/\ TablePlace(results_in[i].source_type) > 0
                   /\ TablePlace(results_in[j].source_type) > 0
                   /\ TablePlace(results_in[i].source_type) < TablePlace(results_in[j].source_type)) =>
                      PositionOf(preferred, results_in[i].title) < PositionOf(preferred, results_in[j].title)

\* The relative order of the results of list before that have the same source_type
\* and the same key is the same in list after.
KeepsOrderOfEquals(before, keys, after) ==
    \A i, j \in 1..Len(before) :
        (i < j /\ before[i].source_type = before[j].source_type /\ keys[i] = keys[j]) =>
            PositionOf(after, before[i].title) < PositionOf(after, before[j].title)

\* C23 (stability): each ranking pass keeps the input order of two results with the
\* same source_type and the same ranking key: the preference pass, the weighting
\* pass after it, and a direct rank_search_results call.
C23_EachPassStable ==
    /\ filtered # <<>> =>
           KeepsOrderOfEquals(results_in,
                              [i \in 1..Len(results_in) |-> TablePlace(results_in[i].source_type)],
                              filtered[1])
    /\ AgentRanked =>
           KeepsOrderOfEquals(filtered[1],
                              [i \in 1..Len(filtered[1]) |-> weighted_score(to_ranked(filtered[1][i]))],
                              ranked[1])
    /\ (rank_pc = "done" /\ filtered = <<>>) =>
           KeepsOrderOfEquals(SelectSeq(results_in, LAMBDA r : r.source_type \notin disallowed),
                              [i \in 1..Len(SelectSeq(results_in, LAMBDA r : r.source_type \notin disallowed)) |->
                                  weighted_score(SelectSeq(results_in, LAMBDA r : r.source_type \notin disallowed)[i])],
                              ranked[1])

\* In the list, every result whose input label is not in the preference table comes
\* after every result whose input label is.
UnlistedLast(list) ==
    \A i, j \in 1..Len(results_in) :
        (TablePlace(results_in[i].source_type) > 0 /\ TablePlace(results_in[j].source_type) = 0) =>
            PositionOf(list, results_in[i].title) < PositionOf(list, results_in[j].title)

\* C23: source ranking is stable in each of its passes, and in the ranked list the
\* agent returns a result whose source_type is not in the preference table comes
\* after every result whose label is in the table.
C23_StableAndUnlistedLast ==
    /\ C23_EachPassStable
    /\ AgentRanked => UnlistedLast(ranked[1])

\* rank_search_results has returned.
LibraryRanked == rank_pc = "done" /\ filtered = <<>>

\* C24: rank_search_results returns exactly the input results whose source_type is
\* not disallowed, each once, in non-increasing order of base score times weight
\* plus bonus: no disallowed type is in the output, and a result with a higher
\* weighted score precedes one with a lower score, whatever their types.
C24_FilteredAndOrdered ==
    LibraryRanked =>
        LET out == ranked[1]
            Kept == {i \in 1..Len(results_in) : results_in[i].source_type \notin disallowed}
        IN /\ Len(out) = Cardinality(Kept)
           /\ \A i \in Kept : \E k \in 1..Len(out) : out[k] = results_in[i]
           /\ \A k \in 1..Len(out) : out[k].source_type \notin disallowed
           /\ \A k, m \in 1..Len(out) :
                  weighted_score(out[k]) > weighted_score(out[m]) => k < m

\* C24 witness: from a community result of 0.9, an official one of 0.6 and a
\* reporting one of 0.9, community being disallowed, the call has returned the
\* reporting result (0.95) before the official one (0.9).
C24_Witness ==
    /\ LibraryRanked
    /\ disallowed = {Label.community}
    /\ Len(results_in) = 3
    /\ results_in[1].source_type = Label.community /\ results_in[1].base_score = 90
    /\ results_in[2].source_type = Label.official /\ results_in[2].base_score = 60
    /\ results_in[3].source_type = Label.reporting /\ results_in[3].base_score = 90
    /\ Len(ranked[1]) = 2
    /\ ranked[1][1] = results_in[3]
    /\ ranked[1][2] = results_in[2]

(***************************************************************************)
(* The research cache: app/utils/cache.py (CacheEntry, TTLCache).  In      *)
(* specification CacheSpec two requests call get and set on one TTLCache   *)
(* in any order of the calls, while time passes.  The calls themselves do  *)
(* not overlap: every Orchestrator.run() is called on the event-loop       *)
(* thread (app/main.py, _run_sync_research) and waits for its worker       *)
(* thread, so one research call ends before the next begins.               *)
(***************************************************************************)
\* Variant of is_expired: an entry is still served at the instant it expires.
is_expired_after(entry, now) == now > entry.expires_at

\* CacheEntry.is_expired(): timestamp >= self.expires_at
is_expired(entry, now) == now >= entry.expires_at

\* Variant of TTLCache_get: the entry's value is returned without the expiry check.
TTLCache_get_noExpiry(store, key, now) ==
    IF store[key] = <<>>
    THEN [value |-> <<>>, store |-> store]
    ELSE [value |-> <<store[key][1].value>>, store |-> store]

\* TTLCache.get(key) at time now: what it returns (<<>> is None) and the _store
\* it leaves; an expired entry is popped.
TTLCache_get(store, key, now) ==
    IF store[key] = <<>>
    THEN [value |-> <<>>, store |-> store]
    ELSE IF is_expired(store[key][1], now)
    THEN [value |-> <<>>, store |-> [store EXCEPT ![key] = <<>>]]
    ELSE [value |-> <<store[key][1].value>>, store |-> store]

\* TTLCache.set(key, value) at time now: the _store it leaves.
TTLCache_set(store, key, value, now) ==
    [store EXCEPT ![key] = <<[value |-> value, expires_at |-> now + TtlTicks]>>]

\* The requests that use the cache at the same time.
CacheRequests == {1, 2}

\* The keys the two requests ask for.
SharedKeys == {UserQuery, "latest news q"}

\* The grouped results request r stores (what its own search returned).
Grouped(r) == [preferred |-> <<Hit(r, Label.official)>>, all |-> <<Hit(r, Label.official)>>]

\* cached = self.cache.get(query), by request r
CacheGet(r, key) ==
    /\ LET got == TTLCache_get(cache_store, key, clock)
       IN /\ cache_store' = got.store
          /\ cache_last' = <<[op |-> "get", request |-> r, key |-> key, at |-> clock, value |-> got.value]>>
    /\ UNCHANGED <<clock, rankVars, researchVars, pollVars, serverVars, configVars, runVars, execVars, histVars>>

\* self.cache.set(query, grouped), by request r
CacheSet(r, key) ==
    /\ cache_store' = TTLCache_set(cache_store, key, Grouped(r), clock)
    /\ cache_last' = <<[op |-> "set", request |-> r, key |-> key, at |-> clock, value |-> <<Grouped(r)>>]>>
    /\ UNCHANGED <<clock, rankVars, researchVars, pollVars, serverVars, configVars, runVars, execVars, histVars>>

\* Time passes between two calls.
Tick ==
    /\ clock < MaxClock
    /\ clock' = clock + 1
    /\ UNCHANGED <<cache_store, cache_last, rankVars, researchVars, pollVars, serverVars, configVars, runVars,
                   execVars, histVars>>

CacheInit ==
    /\ RunIdle
    /\ ServerInit(TRUE, <<>>)
    /\ LibIdle

CacheNext ==
    \/ \E r \in CacheRequests, key \in SharedKeys : CacheGet(r, key)
    \/ \E r \in CacheRequests, key \in SharedKeys : CacheSet(r, key)
    \/ Tick

CacheSpec == CacheInit /\ [][CacheNext]_vars

(***************************************************************************)
(* Properties of the research cache.                                       *)
(***************************************************************************)
\* The cache holds an entry for the key that has not expired.
Live(key) == cache_store[key] # <<>> /\ clock < cache_store[key][1].expires_at

\* C28: in every order of the get and set calls of the requests, a get returns a value
\* only from an entry that has not expired, returns the value of the entry if there
\* is one that has not expired (whoever set it), and leaves every such entry in place;
\* a set replaces the entry of its key only.
C28_CacheNotCorrupted ==
    [][(cache_last' # <<>> /\ clock' = clock) =>
          LET call == cache_last'[1]
          IN IF call.op = "get"
             THEN /\ call.value # <<>> => (Live(call.key) /\ call.value[1] = cache_store[call.key][1].value)
                  /\ Live(call.key) => call.value = <<cache_store[call.key][1].value>>
                  /\ \A key \in CacheKeys : Live(key) => cache_store'[key] = cache_store[key]
             ELSE \A key \in CacheKeys \ {call.key} : cache_store'[key] = cache_store[key]]_vars

\* C28 witness: request 2 has got, one tick after it was set, the value request 1
\* set, and the entry is still in the cache.
C28_Witness ==
    /\ cache_last = <<[op |-> "get", request |-> 2, key |-> UserQuery, at |-> 1, value |-> <<Grouped(1)>>]>>
    /\ cache_store[UserQuery] = <<[value |-> Grouped(1), expires_at |-> TtlTicks]>>
    /\ Live(UserQuery)

(***************************************************************************)
(* Research and evidence assembly: app/tools/web_search.py (from_raw,      *)
(* WebSearchTool.search), app/agents/research.py (research_with_response), *)
(* app/runtime.py (ResearcherAdapter.research, _select_citations,          *)
(* _build_findings, _build_evidence, TemplateWriter.write).  Specification *)
(* ResearchSpec follows the research passes of one run and the assembly of *)
(* what the writer returns.  A pass takes the branch of                    *)
(* ResearcherAdapter.research that the request metadata and the strategy   *)
(* select.  The transport, the deep-research provider and the LLM of the   *)
(* writer are environment.                                                 *)
(***************************************************************************)
\* Raw results of the transport (dicts): a full one, one with an empty snippet, and
\* one without title and source_type that has the URL of the first.
RawResults ==
    { [title |-> "Title A", url |-> "https://example.com/a", snippet |-> "Snippet A",
       source_type |-> Label.official],
      [title |-> "Title B", url |-> "https://example.com/b", snippet |-> "",
       source_type |-> Label.news],
      [url |-> "https://example.com/a", snippet |-> "Snippet C"] }

\* What the transport returns for a query when it returns.
TransportHits == UNION { [1..n -> RawResults] : n \in 0..MaxHits }

\* SearchResult.from_raw: raw.get(key, default) for each field.
from_raw(raw) ==
    LET get(key, default) == IF key \in DOMAIN raw THEN raw[key] ELSE default
    IN [title |-> get("title", ""), url |-> get("url", ""),
        snippet |-> get("snippet", ""), source_type |-> get("source_type", Label.unknown)]

\* What a call of the transport does: it returns raw results or raises.
TransportOutcomes(hits) == { [raised |-> FALSE, raw |-> hits], [raised |-> TRUE, raw |-> <<>>] }

\* Variant of search: an exception of the transport goes through to the caller.
search_noCatch(outcome) ==
    [raised |-> outcome.raised, results |-> [i \in 1..Len(outcome.raw) |-> from_raw(outcome.raw[i])]]

\* WebSearchTool.search: raw_results is [] when the transport raises; the results are
\* normalized.  raised tells whether search itself raises.
search(outcome) ==
    LET raw_results == IF outcome.raised THEN <<>> ELSE outcome.raw
    IN [raised |-> FALSE, results |-> [i \in 1..Len(raw_results) |-> from_raw(raw_results[i])]]

\* seq[:n]
Prefix(seq, n) == SubSeq(seq, 1, IF Len(seq) < n THEN Len(seq) ELSE n)

\* research_with_response on a cache miss, from the results of search: the list is
\* cut to max_calls, sorted by preference and ranked; grouped is what is cached.
GroupResults(results, max_calls) ==
    LET raw_results == Prefix(results, max_calls)
    IN [preferred |-> rank(filter_by_preference(raw_results)), all |-> raw_results]

\* The runs of this model: plan.passes, Strategy.max_searches and Strategy.model for
\* a quick run, a standard run (COMPANY_RESEARCH: 4 searches), a deep run whose
\* profile has no deep strategy (DEFINITION_OR_SIMPLE_QUERY falls back to standard: 3)
\* and a deep run whose profile has one (COMPANY_RESEARCH: o3-deep-research, 8).
Strategies ==
    { [depth |-> "quick", passes |-> 1, max_searches |-> 2, model |-> "gpt-5.1"],
      [depth |-> "standard", passes |-> 2, max_searches |-> 4, model |-> "gpt-5.1"],
      [depth |-> "deep", passes |-> 3, max_searches |-> 3, model |-> "gpt-5.1"],
      [depth |-> "deep", passes |-> 3, max_searches |-> 8, model |-> "o3-deep-research"] }

\* The deep results _process_task puts into the request metadata (only a non-empty
\* list is put there), or none.
MetadataDeepResults ==
    { <<>>,
      <<from_raw([title |-> "Title A", url |-> "https://example.com/a", snippet |-> "Snippet A",
                  source_type |-> Label.official])>>,
      <<from_raw([url |-> "https://example.com/a", snippet |-> "Snippet C"]),
        from_raw([title |-> "Title B", url |-> "https://example.com/b", snippet |-> "",
                  source_type |-> Label.news])>> }

\* Variant of ResearchBranch: deep results in the metadata are not looked at.
ResearchBranch_ignoreMetadata(from_metadata, strat) ==
    IF strat.model = "o3-deep-research" /\ strat.depth = "deep" THEN "deep_client" ELSE "search"

\* The branch of ResearcherAdapter.research: `if metadata_deep_results`, `elif
\* "deep-research" in strategy.model and decision.depth == "deep"`, else the searches.
\* Of the models of the strategy matrix o3-deep-research has the substring.
ResearchBranch(from_metadata, strat) ==
    IF from_metadata # <<>> THEN "metadata"
    ELSE IF strat.model = "o3-deep-research" /\ strat.depth = "deep" THEN "deep_client"
    ELSE "search"

\* search_queries = self._build_search_queries(query, max_searches, depth)
SearchQueries == Prefix(QueryVariations(strategy.depth), strategy.max_searches)

\* A run reaches its research loop: the orchestrator's researcher has an empty
\* cache, the transport's answer and the strategy are given.
ResearchInit ==
    /\ RunIdle
    /\ ServerInit(TRUE, <<>>)
    /\ RankIdle
    /\ CacheIdle
    /\ PollIdle
    /\ transport_hits \in TransportHits
    /\ strategy \in Strategies
    /\ research_pc = "research"
    /\ query_idx = 1
    /\ aggregated_results = [preferred |-> <<>>, all |-> <<>>]
    /\ pass_results = <<>>
    /\ search_log = <<>>
    /\ metadata_deep_results \in MetadataDeepResults
    /\ deep_client_calls = <<>>
    /\ written = <<>>

\* A pass of ResearcherAdapter.research outside the search loop: the deep results of
\* the metadata are the pass's results, or else those DeepResearchClient.run_sync
\* returns (results[:max_results], or [] when the provider is unavailable or fails).
\* research returns, and the orchestrator appends the pass and starts the next one,
\* or goes on to the writer.
ResearchDeep ==
    /\ research_pc = "research"
    /\ ResearchBranch(metadata_deep_results, strategy) # "search"
    /\ \E provider_ok \in BOOLEAN :
         LET uses_metadata == ResearchBranch(metadata_deep_results, strategy) = "metadata"
             run_sync == IF provider_ok
                         THEN Prefix([i \in 1..Len(transport_hits) |-> from_raw(transport_hits[i])],
                                     strategy.max_searches)
                         ELSE <<>>
             results == IF uses_metadata THEN metadata_deep_results ELSE run_sync
         IN /\ uses_metadata => provider_ok
            /\ deep_client_calls' = IF uses_metadata THEN deep_client_calls
                                    ELSE Append(deep_client_calls,
                                                [query |-> UserQuery, max_results |-> strategy.max_searches,
                                                 returned |-> run_sync])
            /\ pass_results' = Append(pass_results,
                                      [pass_index |-> Len(pass_results),
                                       results |-> [preferred |-> results, all |-> results]])
    /\ research_pc' = IF Len(pass_results) + 1 = strategy.passes THEN "write" ELSE "research"
    /\ UNCHANGED <<transport_hits, strategy, query_idx, aggregated_results, search_log,
                   metadata_deep_results, written, rankVars, cacheVars, pollVars, serverVars, configVars,
                   runVars, execVars, histVars>>

\* One iteration of the loop over search_queries in ResearcherAdapter.research:
\* research_with_response(query) answers from the cache, or searches, ranks and
\* caches; the results are added to aggregated_results; when max_searches preferred
\* results are there the list is cut and the loop left.  After the last iteration
\* research returns, and the orchestrator appends the pass and starts the next one,
\* or goes on to the writer.
ResearchQuery ==
    /\ research_pc = "research"
    /\ ResearchBranch(metadata_deep_results, strategy) = "search"
    /\ LET query == SearchQueries[query_idx]
           got == TTLCache_get(cache_store, query, clock)
           hit == got.value # <<>>
       IN \E outcome \in TransportOutcomes(transport_hits) :
            LET found == search(outcome)
            IN /\ hit => ~outcome.raised
               /\ IF ~hit /\ found.raised
                  THEN /\ research_pc' = "search_raised"
                       /\ search_log' = Append(search_log, [query |-> query, raised |-> outcome.raised,
                                                           returned |-> <<>>])
                       /\ cache_store' = got.store
                       /\ cache_last' = <<[op |-> "get", request |-> 1, key |-> query, at |-> clock,
                                          value |-> got.value]>>
                       /\ UNCHANGED <<query_idx, aggregated_results, pass_results>>
                  ELSE LET grouped == IF hit THEN got.value[1]
                                      ELSE GroupResults(found.results, strategy.max_searches)
                           extended == [preferred |-> aggregated_results.preferred \o grouped.preferred,
                                        all |-> aggregated_results.all \o grouped.all]
                           enough == Len(extended.preferred) >= strategy.max_searches
                           aggregated == IF enough
                                         THEN [extended EXCEPT !.preferred = Prefix(@, strategy.max_searches)]
                                         ELSE extended
                           returns == enough \/ query_idx = Len(SearchQueries)
                       IN /\ cache_store' = IF hit THEN got.store
                                            ELSE TTLCache_set(got.store, query, grouped, clock)
                          /\ cache_last' = IF hit
                                           THEN <<[op |-> "get", request |-> 1, key |-> query, at |-> clock,
                                                   value |-> got.value]>>
                                           ELSE <<[op |-> "set", request |-> 1, key |-> query, at |-> clock,
                                                   value |-> <<grouped>>]>>
                          /\ search_log' = IF hit THEN search_log
                                           ELSE Append(search_log, [query |-> query, raised |-> outcome.raised,
                                                                    returned |-> <<found.results>>])
                          /\ IF returns
                             THEN /\ pass_results' = Append(pass_results,
                                                            [pass_index |-> Len(pass_results),
                                                             results |-> aggregated])
                                  /\ aggregated_results' = [preferred |-> <<>>, all |-> <<>>]
                                  /\ query_idx' = 1
                                  /\ research_pc' = IF Len(pass_results) + 1 = strategy.passes
                                                    THEN "write" ELSE "research"
                             ELSE /\ aggregated_results' = aggregated
                                  /\ query_idx' = query_idx + 1
                                  /\ UNCHANGED <<pass_results, research_pc>>
    /\ UNCHANGED <<clock, transport_hits, strategy, metadata_deep_results, deep_client_calls, written,
                   rankVars, pollVars, serverVars, configVars, runVars, execVars, histVars>>

\* Citation(source=item.title or "Source", url=item.url, note=item.snippet)
Citation(item) ==
    [source |-> IF item.title = "" THEN "Source" ELSE item.title, url |-> item.url, note |-> item.snippet]

\* The inner loop of _select_citations over one preferred list, from item k on.
RECURSIVE CiteItems(_, _, _)
CiteItems(preferred, k, citations) ==
    IF k > Len(preferred) \/ Len(citations) >= MaxCitations
    THEN citations
    ELSE CiteItems(preferred, k + 1, Append(citations, Citation(preferred[k])))

\* The outer loop of _select_citations, from result r on.
RECURSIVE CiteResults(_, _, _)
CiteResults(per_pass, r, citations) ==
    IF r > Len(per_pass)
    THEN citations
    ELSE LET cited == CiteItems(per_pass[r].results.preferred, 1, citations)
         IN IF Len(cited) >= MaxCitations THEN cited ELSE CiteResults(per_pass, r + 1, cited)

\* Variant of select_citations: every preferred result is cited.
select_citations_uncapped(per_pass) ==
    LET RECURSIVE All(_)
        All(r) == IF r > Len(per_pass) THEN <<>>
                  ELSE [i \in 1..Len(per_pass[r].results.preferred) |->
                            Citation(per_pass[r].results.preferred[i])] \o All(r + 1)
    IN All(1)

\* _select_citations(research_results)
select_citations(per_pass) == CiteResults(per_pass, 1, <<>>)

\* bibliography_entries of TemplateWriter.write: the id "S<i>" is the pair of the
\* code of S and i.
bibliography_entries(citations) ==
    [i \in 1..Len(citations) |->
        [id |-> <<83, i>>, title |-> citations[i].source, url |-> citations[i].url,
         annotation |-> citations[i].note]]

\* source_map = {entry["id"]: entry["url"] ...}: a dict, a later entry with the same
\* id replacing an earlier one.
source_map(entries) ==
    [id \in {entries[i].id : i \in 1..Len(entries)} |->
        entries[CHOOSE i \in 1..Len(entries) :
                    entries[i].id = id /\ \A j \in (i + 1)..Len(entries) : entries[j].id # id].url]

\* Finding(id=f"F{counter}", ...): the id is the pair of the code of F and the counter.
Finding(counter, item) ==
    [id |-> <<70, counter>>, title |-> IF item.title = "" THEN "Finding" ELSE item.title,
     type |-> "web", relevance |-> "medium", source_url |-> item.url, source_name |-> item.title,
     snippet |-> item.snippet, key_points |-> IF item.snippet # "" THEN <<item.snippet>> ELSE <<>>]

\* The loops of _build_findings, from item k of result r on; counter is the next number.
RECURSIVE FindingsFrom(_, _, _, _)
FindingsFrom(per_pass, r, k, counter) ==
    IF r > Len(per_pass) THEN <<>>
    ELSE IF k > Len(per_pass[r].results.preferred)
    THEN FindingsFrom(per_pass, r + 1, 1, counter)
    ELSE <<Finding(counter, per_pass[r].results.preferred[k])>>
         \o FindingsFrom(per_pass, r, k + 1, counter + 1)

\* Variant of build_findings: the findings of results with an empty snippet are left out.
build_findings_dropEmpty(per_pass) ==
    SelectSeq(FindingsFrom(per_pass, 1, 1, 1), LAMBDA f : f.snippet # "")

\* _build_findings(research_results)
build_findings(per_pass) == FindingsFrom(per_pass, 1, 1, 1)

\* Evidence(id=f"E{finding.id}", ...): claim is the first key point, else the snippet,
\* else the title.
Evidence(finding) ==
    [id |-> <<69>> \o finding.id,
     claim |-> IF finding.key_points # <<>> THEN finding.key_points[1]
               ELSE IF finding.snippet # "" THEN finding.snippet ELSE finding.title,
     excerpt |-> finding.snippet, source_id |-> finding.id, source_url |-> finding.source_url,
     confidence |-> "medium"]

\* _build_evidence(findings)
build_evidence(findings) == [i \in 1..Len(findings) |-> Evidence(findings[i])]

\* TemplateWriter.write: citations, bibliography and source map, the LLM writer's
\* call (it returns a deliverable or raises WriterError), findings and evidence.
Write ==
    /\ research_pc = "write"
    /\ \E gpt_returns \in BOOLEAN :
         IF gpt_returns
         THEN LET citations == select_citations(pass_results)
                  entries == bibliography_entries(citations)
                  findings == build_findings(pass_results)
              IN /\ written' = <<[citations |-> citations, bibliography |-> entries,
                                  source_map |-> source_map(entries), findings |-> findings,
                                  evidence |-> build_evidence(findings)]>>
                 /\ research_pc' = "done"
         ELSE /\ written' = <<>>
              /\ research_pc' = "writer_raised"
    /\ UNCHANGED <<transport_hits, strategy, query_idx, aggregated_results, pass_results, search_log,
                   metadata_deep_results, deep_client_calls, rankVars, cacheVars, pollVars, serverVars,
                   configVars, runVars, execVars, histVars>>

\* Time passes while the run is under way.
ResearchTick ==
    /\ research_pc \in {"research", "write"}
    /\ Tick

ResearchNext ==
    \/ ResearchQuery
    \/ ResearchDeep
    \/ Write
    \/ ResearchTick

ResearchSpec == ResearchInit /\ [][ResearchNext]_vars

(***************************************************************************)
(* Properties of research and evidence assembly.                           *)
(***************************************************************************)
\* The preferred results of the passes from pass r on, in pass order then result order.
RECURSIVE PreferredFrom(_)
PreferredFrom(r) ==
    IF r > Len(pass_results) THEN <<>>
    ELSE pass_results[r].results.preferred \o PreferredFrom(r + 1)

\* The preferred results of all passes.
AllPreferred == PreferredFrom(1)

\* C25: for the k-th preferred result of all passes (pass order, then result order)
\* there is one Finding with id F<k>, built from that result, and one Evidence with
\* id E + that id and source_id F<k>, at position k of their lists: the lists are as
\* long as the results are many, ids are unique, and no result is dropped.
C25_FindingsAndEvidencePaired ==
    written # <<>> =>
        LET findings == written[1].findings
            evidence == written[1].evidence
        IN /\ Len(findings) = Len(AllPreferred)
           /\ Len(evidence) = Len(findings)
           /\ \A k \in 1..Len(AllPreferred) :
                  /\ findings[k].id = <<70, k>>
                  /\ findings[k].source_url = AllPreferred[k].url
                  /\ findings[k].snippet = AllPreferred[k].snippet
                  /\ evidence[k].id = <<69, 70, k>>
                  /\ evidence[k].source_id = findings[k].id
                  /\ evidence[k].source_url = AllPreferred[k].url
           /\ \A i, j \in 1..Len(findings) :
                  i # j => (findings[i].id # findings[j].id /\ evidence[i].id # evidence[j].id)

\* C25 witness: two passes gave four preferred results, one of them with an empty
\* snippet; its finding F2 is there with no key points, and its evidence EF2 claims
\* the title.
C25_Witness ==
    /\ written # <<>>
    /\ Len(pass_results) = 2
    /\ Len(written[1].findings) = 4
    /\ AllPreferred[2].snippet = ""
    /\ written[1].findings[2].key_points = <<>>
    /\ written[1].evidence[2].id = <<69, 70, 2>>
    /\ written[1].evidence[2].claim = "Title B"

\* C26: the citations handed to composition are the first min(5, n) of the n
\* preferred results of all passes, in pass order then result order, however many
\* passes and results there are.
C26_CitationsCapped ==
    written # <<>> =>
        LET citations == written[1].citations
        IN /\ Len(citations) = IF Len(AllPreferred) < 5 THEN Len(AllPreferred) ELSE 5
           /\ \A k \in 1..Len(citations) :
                  /\ citations[k].url = AllPreferred[k].url
                  /\ citations[k].note = AllPreferred[k].snippet
           /\ Len(written[1].bibliography) = Len(citations)

\* C26 witness: three passes gave nine preferred results, and five citations were
\* handed on.
C26_Witness ==
    /\ written # <<>>
    /\ Len(pass_results) = 3
    /\ Len(AllPreferred) = 9
    /\ Len(written[1].citations) = 5

\* C27: no two citations and no two bibliography entries of a run refer to the same
\* source URL.
C27_BibliographyDeduplicated ==
    written # <<>> =>
        /\ \A i, j \in 1..Len(written[1].citations) :
               i # j => written[1].citations[i].url # written[1].citations[j].url
        /\ \A i, j \in 1..Len(written[1].bibliography) :
               i # j => written[1].bibliography[i].url # written[1].bibliography[j].url

\* No search of the run has returned a result.
NothingFound == \A i \in 1..Len(search_log) : search_log[i].returned \in {<<>>, <<<<>>>>}

\* C30: search does not raise to its caller: a search whose transport raised has
\* returned the empty list, and the run never stops in the research loop; a run that
\* gets its results from searches and whose searches returned no result goes on to
\* the writer, and what the writer assembles for it has no findings, no evidence and
\* no citations.
C30_SearchNeverRaises ==
    /\ research_pc # "search_raised"
    /\ \A i \in 1..Len(search_log) : search_log[i].returned # <<>>
    /\ \A i \in 1..Len(search_log) : search_log[i].raised => search_log[i].returned = <<<<>>>>
    /\ (ResearchBranch(metadata_deep_results, strategy) = "search" /\ NothingFound /\ written # <<>>) =>
           /\ research_pc = "done"
           /\ written[1].findings = <<>>
           /\ written[1].evidence = <<>>
           /\ written[1].citations = <<>>

\* C30 witness: the transport, which has results to give, raised in both searches of
\* a standard run; the run is done, with nothing found and nothing cited.
C30_Witness ==
    /\ research_pc = "done"
    /\ transport_hits # <<>>
    /\ Len(search_log) = 2
    /\ search_log[1].raised /\ search_log[2].raised
    /\ Len(pass_results) = 2
    /\ written # <<>>
    /\ written[1].findings = <<>>
    /\ written[1].citations = <<>>

(***************************************************************************)
(* Properties of persistence failures.                                     *)
(***************************************************************************)
\* The exceptions a persistence write raises.
SaveErrors == {JsonError, DbError}

\* C29: an exception of a persistence write is logged and goes no further: it never
\* ends the background work of a task, and it never becomes the error of a failed
\* task (so no task is failed, or turned from completed to failed, by it).
C29_SaveFailureStaysLocal ==
    \A t \in TaskIds :
        /\ tpc[t] \in {"crashed", "handler"} => (exc[t] # <<>> /\ exc[t][1] \notin SaveErrors)
        /\ (tasks[t] # <<>> /\ tasks[t][1].status = "failed") =>
               \A e \in SaveErrors : tasks[t][1].error # <<Str(e)>>

(***************************************************************************)
(* Properties of the backoff between attempts.                             *)
(***************************************************************************)
\* C31: after the n-th failed attempt of a stage call (n from 1, n < max_attempts)
\* the executor sleeps backoff_factor * 2^(n-1) before attempt n+1: the first sleep
\* is backoff_factor long and each later one twice the one before; there is no sleep
\* after the final failed attempt and none after a successful one, and attempt n+1
\* is not submitted before the n-th sleep was made.
C31_BackoffSchedule ==
    /\ Len(slept) = (IF Len(errors) < max_attempts THEN Len(errors) ELSE max_attempts - 1)
    /\ \A n \in 1..Len(slept) : slept[n] = (IF n = 1 THEN backoff_factor ELSE 2 * slept[n - 1])
    /\ calls <= Len(slept) + 1
    /\ exPc = "sleep" => calls = Len(slept)
    /\ exPc = "done" => Len(slept) = calls - 1

\* C31 witness: a stage call with max_attempts = 3 failed three times, the executor
\* slept 0.5 s and 1 s, and nothing after the third failure.
C31_Witness ==
    /\ pc = "raised"
    /\ Len(errors) = 3
    /\ slept = <<5, 10>>

(***************************************************************************)
(* Properties of the task handed to the research passes.                   *)
(***************************************************************************)
\* The task every research pass of the run is to receive: the plan's seeded task
\* when the plan is persistent, none otherwise.
TaskOfRun == IF plan[1].persistent_task THEN <<SeededTask>> ELSE <<>>

\* C32: all research passes of a run receive the same persisted ResearchTask, the
\* single task the plan was seeded with, when the plan is persistent (depth deep),
\* and no task when it is not; this holds for every attempt of a pass, retried ones
\* included, and the task is never one made for the pass (its pass_index stays 0).
C32_OnePersistedTask ==
    plan # <<>> =>
        /\ plan[1].persistent_task <=> Lower(router_decision[1].depth) = S_deep
        /\ plan[1].persistent_task => plan[1].tasks = <<SeededTask>>
        /\ \A i \in 1..Len(stageLog) :
               stageLog[i].stage = "researcher" => stageLog[i].args.task = TaskOfRun
        /\ (stage = "researcher" /\ future = "pending") => stage_args.task = TaskOfRun
        /\ \A i \in 1..Len(research_results) : research_results[i].task = TaskOfRun

\* C32 witness: the third pass of a deep run is at its second attempt, the first two
\* passes have returned, and the attempt holds the seeded task.
C32_Witness ==
    /\ pc = "researcher"
    /\ idx = 2
    /\ attempt = 2
    /\ future = "pending"
    /\ Len(research_results) = 2
    /\ stage_args.task = <<SeededTask>>
    /\ research_results[1].task = <<SeededTask>>

(***************************************************************************)
(* Properties of the worker threads of one run.                            *)
(***************************************************************************)
\* C39: within one Orchestrator.run() no two stage operations execute at the same
\* time: while an operation is running the caller is waiting for it (for its result
\* or, after the timeout, for the end of its thread), and a new attempt or a later
\* stage starts only when no operation is running, also after an attempt that was
\* reported as timed out; so no abandoned attempt is alive once a later one started.
C39_NoOverlappingOperations ==
    /\ [](worker = "running" => exPc \in {"result_wait", "shutdown_wait"})
    /\ [][(calls' # calls \/ stageLog' # stageLog) => worker = "idle"]_vars

\* C39 witness: the second stage of a run is being attempted after its first attempt
\* was reported as timed out.
C39_Witness ==
    /\ Len(stageLog) >= 2
    /\ errors = <<TimeoutErr>>
    /\ attempt = 2
    /\ worker = "running"
    /\ exPc = "result_wait"

(***************************************************************************)
(* poll_deep_research (app/main.py, inside _process_task): the loop that   *)
(* polls the provider's background job, in the executor's thread.  Time is *)
(* counted in ticks of the poll interval (time.sleep(2)); a status         *)
(* retrieval takes 0 to 2 ticks.  The provider is environment.  This is    *)
(* specification PollSpec; Poll of TaskSpec is one iteration of this loop  *)
(* seen from the task service.                                             *)
(***************************************************************************)
\* What a status retrieval brings: the status of the response, or an exception of
\* responses.retrieve ("raised").  mentions tells whether the text of the exception
\* (of retrieve, or the RuntimeError built from the provider's error message) holds
\* "completed" or "succeeded".
RetrieveOutcomes ==
    [status : {"raised", "failed", "error"}, mentions : BOOLEAN]
        \cup [status : {"in_progress", "completed", "succeeded"}, mentions : {FALSE}]

\* What _extract_intermediate_notes returns for a response (a list, repeats included).
NoteLists == {<<>>, <<"n1">>, <<"n2", "n1", "n2">>}

\* The elements of a list.
Range(seq) == {seq[i] : i \in DOMAIN seq}

\* Variant of merge_notes: the visible notes are replaced by the new ones.
merge_notes_replace(current_notes, intermediate_notes) ==
    LET IsNew(n) == n \notin Range(current_notes)
        new_notes == SelectSeq(intermediate_notes, IsNew)
    IN IF new_notes # <<>>
       THEN {p \in [1..Cardinality(Range(new_notes)) -> Range(new_notes)] : Range(p) = Range(new_notes)}
       ELSE {current_notes}

\* new_notes = [n for n in intermediate_notes if n not in current_notes];
\* if new_notes: _tasks[task_id].notes = list(set(current_notes + new_notes)).
\* The lists the task's notes can be afterwards: a set has no order of its own.
merge_notes(current_notes, intermediate_notes) ==
    LET IsNew(n) == n \notin Range(current_notes)
        new_notes == SelectSeq(intermediate_notes, IsNew)
        merged == Range(current_notes) \cup Range(new_notes)
    IN IF new_notes # <<>>
       THEN {p \in [1..Cardinality(merged) -> merged] : Range(p) = merged}
       ELSE {current_notes}

\* raise TimeoutError("Deep research polling timeout") in the except clause, and
\* raise TimeoutError("Deep research did not complete within timeout") after the loop.
PollTimeouts ==
    [in_except |-> [type |-> "TimeoutError", msg |-> "Deep research polling timeout"],
     after_loop |-> [type |-> "TimeoutError", msg |-> "Deep research did not complete within timeout"]]

\* Variant of AfterSleep: the loop does not sleep between polls.
AfterSleep_noSleep(now) == now

\* time.sleep(2): one tick later.
AfterSleep(now) == now + 1

\* The except clause of the loop at time now: break when the text mentions
\* completed (the raise after the loop follows), the timeout when the 900 s are
\* exceeded, else time.sleep(2) and the next iteration.
ExceptClause(mentions, now) ==
    IF mentions
    THEN poll_pc' = "raised" /\ poll_exc' = <<PollTimeouts.after_loop>> /\ elapsed' = now
    ELSE IF now > PollCeiling
    THEN poll_pc' = "raised" /\ poll_exc' = <<PollTimeouts.in_except>> /\ elapsed' = now
    ELSE poll_pc' = "loop" /\ poll_exc' = <<>> /\ elapsed' = AfterSleep(now)

\* One iteration of `while time.time() - start_time < 900`: the status retrieval,
\* the merge of the notes, the test of the status, and the sleep or the exit.
PollIteration ==
    /\ poll_pc = "loop"
    /\ elapsed < PollCeiling
    /\ \E o \in RetrieveOutcomes, d \in 0..2, intermediate_notes \in NoteLists :
           LET now == elapsed + d
           IN /\ retrievals' = Append(retrievals, o.status)
              /\ IF o.status = "raised"
                 THEN /\ ExceptClause(o.mentions, now)
                      /\ UNCHANGED <<task_notes, extracted>>
                 ELSE /\ task_notes' \in merge_notes(task_notes, intermediate_notes)
                      /\ extracted' = <<intermediate_notes>>
                      /\ IF o.status \in {"completed", "succeeded"}
                         THEN poll_pc' = "returned" /\ poll_exc' = <<>> /\ elapsed' = now
                         ELSE IF o.status \in {"failed", "error"}
                         THEN ExceptClause(o.mentions, now)
                         ELSE poll_pc' = "loop" /\ poll_exc' = <<>> /\ elapsed' = AfterSleep(now)
    /\ UNCHANGED <<rankVars, cacheVars, researchVars, serverVars, configVars, runVars, execVars, histVars>>

\* The loop's test fails: raise TimeoutError after the loop.
PollLoopExit ==
    /\ poll_pc = "loop"
    /\ elapsed >= PollCeiling
    /\ poll_pc' = "raised"
    /\ poll_exc' = <<PollTimeouts.after_loop>>
    /\ UNCHANGED <<elapsed, task_notes, retrievals, extracted, rankVars, cacheVars, researchVars,
                   serverVars, configVars, runVars, execVars, histVars>>

\* run_background has returned a response id; the thread enters poll_deep_research.
PollInit ==
    /\ RunIdle
    /\ ServerInit(TRUE, <<>>)
    /\ RankIdle
    /\ CacheIdle
    /\ ResearchIdle
    /\ poll_pc = "loop"
    /\ elapsed = 0
    /\ task_notes = <<>>
    /\ poll_exc = <<>>
    /\ retrievals = <<>>
    /\ extracted = <<>>

PollNext ==
    \/ PollIteration
    \/ PollLoopExit

PollSpec == PollInit /\ [][PollNext]_vars

\* The thread of the poller is scheduled again and again, and a status retrieval
\* returns or raises (the HTTP client has its own timeout).
PollFairSpec == PollSpec /\ WF_vars(PollNext)

(***************************************************************************)
(* Properties of the provider poll loop.                                   *)
(***************************************************************************)
\* C33: a poll that observes status completed or succeeded ends polling
\* successfully, and a poll that observes status failed or error ends polling with
\* an error at that poll: a terminal status is the last status retrieved for the job.
C33_TerminalStatusEndsPolling ==
    \A i \in 1..Len(retrievals) :
        /\ retrievals[i] \in {"completed", "succeeded"} => (i = Len(retrievals) /\ poll_pc = "returned")
        /\ retrievals[i] \in {"failed", "error"} => (i = Len(retrievals) /\ poll_pc = "raised")

\* The polling has ended, by a return or by an exception.
PollEnded == poll_pc \in {"returned", "raised"}

\* C34: the poll loop always terminates; it makes a bounded number of polls (at
\* most one per tick of the interval up to the ceiling), two polls are at least one
\* interval apart, and when no poll observed completed or succeeded (the provider
\* never terminal, or failing, or every retrieval raising) it ends with a timeout
\* error.
C34_PollingTerminates ==
    /\ <>PollEnded
    /\ [](Len(retrievals) <= PollCeiling)
    /\ []((PollEnded /\ \A i \in 1..Len(retrievals) : retrievals[i] \notin {"completed", "succeeded"})
            => (poll_pc = "raised" /\ poll_exc # <<>> /\ poll_exc[1].type = "TimeoutError"))
    /\ [][(retrievals' # retrievals /\ poll_pc' = "loop") => elapsed' >= elapsed + 1]_vars

\* C34 witness: every status retrieval raised, one per interval up to the ceiling,
\* and the polling ended with the timeout error.
C34_Witness ==
    /\ poll_pc = "raised"
    /\ Len(retrievals) = PollCeiling
    /\ \A i \in 1..Len(retrievals) : retrievals[i] = "raised"
    /\ poll_exc = <<PollTimeouts.after_loop>>

\* C35: each poll merges the notes it extracts into the task's visible notes as a
\* set union: after a poll that retrieved a response the visible notes are the ones
\* visible before plus the extracted ones, without duplicates; no step removes a note.
C35_NotesMergedAsUnion ==
    [][/\ Range(task_notes) \subseteq Range(task_notes')
       /\ Cardinality(Range(task_notes')) = Len(task_notes')
       /\ (retrievals' # retrievals /\ retrievals'[Len(retrievals')] # "raised")
              => Range(task_notes') = Range(task_notes) \cup Range(extracted'[1])]_vars

\* C35 witness: a first poll extracted n2, n1, n2 and a second one n1 only: both
\* notes are visible once.
C35_Witness ==
    /\ Len(retrievals) = 2
    /\ extracted = << <<"n1">> >>
    /\ task_notes = <<"n2", "n1">>

(***************************************************************************)
(* Properties of the notes of a task.                                      *)
(***************************************************************************)
\* C40: notes that were merged into a task's visible notes while the provider job
\* was polled are still among the task's notes in every later state of the task:
\* no step that leaves the task running, writing, validating or completed removes a
\* note from its cache entry.
C40_PolledNotesKept ==
    [][\A t \in TaskIds :
           (/\ tasks[t] # <<>>
            /\ tasks'[t] # <<>>
            /\ tasks'[t][1].status \in {"running", "writing", "validating", "completed"})
               => tasks[t][1].notes \subseteq tasks'[t][1].notes]_vars

CurrentQuery == SearchQueries[query_idx]

\* The `all` list the pass has aggregated after a step of the loop (of the pass just
\* returned, when the step ended the pass).
AllAfterStep ==
    IF pass_results' # pass_results
    THEN pass_results'[Len(pass_results')].results.all
    ELSE aggregated_results'.all

\* C37: within the TTL a research call for a query that was searched before returns
\* the grouped result the earlier call stored and does not invoke the transport;
\* once the TTL has elapsed get returns nothing and removes the entry, and the next
\* research call for the query invokes the transport again (and stores its result
\* for a new TTL).  The research calls are those of the search loop of a pass.
C37_CachedWithinTtl ==
    /\ [](\A key \in CacheKeys :
              TTLCache_get(cache_store, key, clock) =
                  IF Live(key)
                  THEN [value |-> <<cache_store[key][1].value>>, store |-> cache_store]
                  ELSE [value |-> <<>>, store |-> [cache_store EXCEPT ![key] = <<>>]])
    /\ [][(research_pc = "research" /\ clock' = clock
            /\ ResearchBranch(metadata_deep_results, strategy) = "search") =>
             IF Live(CurrentQuery)
             THEN /\ search_log' = search_log
                  /\ cache_store' = cache_store
                  /\ AllAfterStep = aggregated_results.all \o cache_store[CurrentQuery][1].value.all
             ELSE /\ Len(search_log') = Len(search_log) + 1
                  /\ search_log'[Len(search_log')].query = CurrentQuery
                  /\ cache_store'[CurrentQuery] # <<>>
                  /\ cache_store'[CurrentQuery][1].expires_at = clock + TtlTicks]_vars

\* C37 witness: a standard run searched both queries in its first pass; in the
\* second pass the first query had expired and was searched again, the second was
\* answered from the cache.
C37_Witness ==
    /\ Len(pass_results) = 2
    /\ Len(search_log) = 3
    /\ search_log[1].query = UserQuery
    /\ search_log[2].query = "latest news q"
    /\ search_log[3].query = UserQuery
    /\ Len(pass_results[2].results.all) = 2 * MaxHits

\* C38: when the request metadata carries deep results, every research pass returns
\* exactly those results as its preferred and as its all list, and neither the search
\* tool nor the deep-research client is called.
C38_DeepResultsFromMetadata ==
    metadata_deep_results # <<>> =>
        /\ \A i \in 1..Len(pass_results) :
               pass_results[i].results = [preferred |-> metadata_deep_results, all |-> metadata_deep_results]
        /\ search_log = <<>>
        /\ deep_client_calls = <<>>
        /\ aggregated_results = [preferred |-> <<>>, all |-> <<>>]

\* C38 witness: a deep run with a deep-research model and two deep results in its
\* metadata has made its three passes, and the writer has returned.
C38_Witness ==
    /\ Len(metadata_deep_results) = 2
    /\ strategy.model = "o3-deep-research"
    /\ Len(pass_results) = 3
    /\ research_pc = "done"

====
